---------------------------- MODULE Spec2Model ----------------------------
(***************************************************************************)
(* cryptpdf: AES-256 (PDF Rev 5) encryption and decryption of a PDF        *)
(* object graph.                                                           *)
(*                                                                         *)
(* Byte strings are sequences of chunks.  A chunk is either literal bytes  *)
(* ([op |-> "lit", v |-> <<b1, ..., bn>>]) or the bytes lo..hi of the      *)
(* output of a platform primitive applied to byte strings (SHA-256, the    *)
(* AES-256 block function and its inverse, a 16-byte XOR that does not     *)
(* reduce).  SHA-256 and AES are the platform's (Web Crypto / node:crypto);*)
(* they are modelled as an ideal hash and an ideal block cipher: equal     *)
(* outputs only for equal inputs, D_K(E_K(B)) = B, E_K(D_K(C)) = C.  All   *)
(* the code of the repository around them (padding, chaining, slicing,     *)
(* concatenation, the two-block trick, the walkers) is computed on these   *)
(* byte strings as the code computes it.                                   *)
(***************************************************************************)
EXTENDS Integers, Sequences, FiniteSets, TLC

\* ------------------------------------------------------------------------
\* Program constants
\* ------------------------------------------------------------------------
AES_BLOCK_SIZE == 16
KEY_LENGTH == 32
IV_LEN == 16
MAX_PASSWORD_UTF8_BYTES == 127

\* ------------------------------------------------------------------------
\* Byte strings (Uint8Array)
\* ------------------------------------------------------------------------
Lit(s) == IF s = <<>> THEN <<>> ELSE <<[op |-> "lit", v |-> s]>>

Fill(n, b) == Lit([i \in 1..n |-> b])

ChunkLen(c) == IF c.op = "lit" THEN Len(c.v) ELSE c.hi - c.lo + 1

RECURSIVE BLen(_)
BLen(bs) == IF bs = <<>> THEN 0 ELSE ChunkLen(Head(bs)) + BLen(Tail(bs))

SameTerm(c, d) ==
  /\ c.op # "lit"
  /\ d.op # "lit"
  /\ [c EXCEPT !.lo = 1, !.hi = 1] = [d EXCEPT !.lo = 1, !.hi = 1]

\* the last element of a sequence, and the sequence without it
Last(s) == s[Len(s)]

Front(s) == SubSeq(s, 1, Len(s) - 1)

\* concatenation of two byte strings, kept in canonical form
Cat(a, b) ==
  IF a = <<>> THEN b
  ELSE IF b = <<>> THEN a
  ELSE IF Last(a).op = "lit" /\ b[1].op = "lit"
    THEN Front(a) \o <<[op |-> "lit", v |-> Last(a).v \o b[1].v]>> \o Tail(b)
  ELSE IF SameTerm(Last(a), b[1]) /\ Last(a).hi + 1 = b[1].lo
    THEN Front(a) \o <<[Last(a) EXCEPT !.hi = b[1].hi]>> \o Tail(b)
  ELSE a \o b

\* chunk c without its first n bytes
ChunkDrop(c, n) ==
  IF c.op = "lit" THEN [c EXCEPT !.v = SubSeq(c.v, n + 1, Len(c.v))]
  ELSE [c EXCEPT !.lo = c.lo + n]

\* the first n bytes of chunk c
ChunkTake(c, n) ==
  IF c.op = "lit" THEN [c EXCEPT !.v = SubSeq(c.v, 1, n)]
  ELSE [c EXCEPT !.hi = c.lo + n - 1]

RECURSIVE Drop(_, _)
Drop(bs, n) ==
  IF n <= 0 \/ bs = <<>> THEN bs
  ELSE IF n >= ChunkLen(Head(bs)) THEN Drop(Tail(bs), n - ChunkLen(Head(bs)))
  ELSE <<ChunkDrop(Head(bs), n)>> \o Tail(bs)

RECURSIVE Take(_, _)
Take(bs, n) ==
  IF n <= 0 \/ bs = <<>> THEN <<>>
  ELSE IF n >= ChunkLen(Head(bs))
    THEN <<Head(bs)>> \o Take(Tail(bs), n - ChunkLen(Head(bs)))
  ELSE <<ChunkTake(Head(bs), n)>>

\* Uint8Array.prototype.slice / subarray (start, end) with non-negative arguments
Slice(bs, s, e) == Take(Drop(bs, s), e - s)

\* concat(...arr) of kdf.ts
RECURSIVE concat(_)
concat(arr) == IF arr = <<>> THEN <<>> ELSE Cat(Head(arr), concat(Tail(arr)))

\* results of calls that may throw
Ok(v) == [ok |-> TRUE, v |-> v, err |-> ""]
Throw(msg) == [ok |-> FALSE, v |-> <<>>, err |-> msg]

\* ------------------------------------------------------------------------
\* Platform primitives: SHA-256, the AES-256 block function, XOR of bytes
\* ------------------------------------------------------------------------
sha256(data) == <<[op |-> "sha", in |-> data, lo |-> 1, hi |-> 32]>>

Whole(bs, opname) ==
  /\ Len(bs) = 1
  /\ bs[1].op = opname
  /\ bs[1].lo = 1
  /\ bs[1].hi = AES_BLOCK_SIZE

AesBlockEncrypt(K, B) ==
  IF Whole(B, "D") /\ B[1].k = K THEN B[1].c
  ELSE <<[op |-> "E", k |-> K, b |-> B, lo |-> 1, hi |-> AES_BLOCK_SIZE]>>

AesBlockDecrypt(K, C) ==
  IF Whole(C, "E") /\ C[1].k = K THEN C[1].b
  ELSE <<[op |-> "D", k |-> K, c |-> C, lo |-> 1, hi |-> AES_BLOCK_SIZE]>>

RECURSIVE XorByte(_, _)
XorByte(a, b) ==
  IF a = 0 THEN b
  ELSE IF b = 0 THEN a
  ELSE ((a + b) % 2) + 2 * XorByte(a \div 2, b \div 2)

IsLit16(B) == Len(B) = 1 /\ B[1].op = "lit"

Zero16 == Fill(16, 0)

XorComps(B) ==
  IF B = Zero16 THEN {}
  ELSE IF Whole(B, "xor") THEN B[1].args
  ELSE {B}

\* the symmetric difference: the components that do not cancel
XorCancel(a, b) == (a \ b) \cup (b \ a)

XorLiterals(S) == {c \in S : IsLit16(c)}

\* bytewise a[i] ^ b[i] of the literal block c1 and the other literal of lits
XorBytes(c1, lits) ==
  Lit([i \in 1..AES_BLOCK_SIZE |->
         XorByte(c1[1].v[i], (CHOOSE c \in lits : c # c1)[1].v[i])])

\* the XOR of the (at most two) literal blocks of lits
XorLiteralValue(lits) ==
  IF lits = {} THEN Zero16
  ELSE IF Cardinality(lits) = 1 THEN CHOOSE c \in lits : TRUE
  ELSE XorBytes(CHOOSE c \in lits : TRUE, lits)

XorTerm(T) ==
  IF T = {} THEN Zero16
  ELSE IF Cardinality(T) = 1 THEN CHOOSE c \in T : TRUE
  ELSE <<[op |-> "xor", args |-> T, lo |-> 1, hi |-> AES_BLOCK_SIZE]>>

XorJoin(others, litv) ==
  XorTerm(others \cup (IF litv = Zero16 THEN {} ELSE {litv}))

XorOfComps(S) == XorJoin(S \ XorLiterals(S), XorLiteralValue(XorLiterals(S)))

\* xor16(a, b) of crypto.ts on two 16-byte blocks: bytewise on literal bytes,
\* and x ^ x = 0, x ^ 0 = x, associative and commutative on the others
xor16(A, B) == XorOfComps(XorCancel(XorComps(A), XorComps(B)))

\* mutant: no padding block is added to a plaintext that fills its last block
Pkcs7Pad_NoFullBlock(P) ==
  Cat(P, Fill((AES_BLOCK_SIZE - (BLen(P) % AES_BLOCK_SIZE)) % AES_BLOCK_SIZE,
              (AES_BLOCK_SIZE - (BLen(P) % AES_BLOCK_SIZE)) % AES_BLOCK_SIZE))

\* PKCS#7 padding as applied by the platform's AES-CBC
Pkcs7Pad(P) ==
  Cat(P, Fill(AES_BLOCK_SIZE - (BLen(P) % AES_BLOCK_SIZE),
              AES_BLOCK_SIZE - (BLen(P) % AES_BLOCK_SIZE)))

\* the padding check on known bytes: v, the literal bytes P ends with, tl
\* their number and n the last of them
UnpadKnown(P, g, v, tl, n) ==
  IF n < 1 \/ n > AES_BLOCK_SIZE THEN Throw("bad decrypt")
  ELSE IF tl >= n
    THEN IF \A i \in (tl - n + 1)..tl : v[i] = n
           THEN Ok(Take(P, BLen(P) - n))
         ELSE Throw("bad decrypt")
  ELSE IF (\A i \in 1..tl : v[i] = n) /\ g = n THEN Ok(Take(P, BLen(P) - n))
  ELSE Throw("bad decrypt")

\* PKCS#7 unpadding as checked by the platform's AES-CBC.  When the bytes
\* that decide the check are not known literals (a block decrypted under a
\* key or from a ciphertext it was not produced with), the outcome is the
\* caller's choice g: 0 for "padding malformed", n for "n bytes stripped".
Pkcs7Unpad(P, g) ==
  IF P = <<>> THEN Throw("bad decrypt")
  ELSE IF Last(P).op = "lit"
    THEN UnpadKnown(P, g, Last(P).v, Len(Last(P).v), Last(Last(P).v))
  ELSE IF g = 0 THEN Throw("bad decrypt")
  ELSE Ok(Take(P, BLen(P) - g))

RECURSIVE CbcEncryptBlocks(_, _, _)

\* enc: the block just encrypted, which chains into the next one
CbcEncryptRest(K, enc, P) ==
  Cat(enc, CbcEncryptBlocks(K, enc, Drop(P, AES_BLOCK_SIZE)))

CbcEncryptBlocks(K, prev, P) ==
  IF P = <<>> THEN <<>>
  ELSE CbcEncryptRest(K, AesBlockEncrypt(K, xor16(prev, Take(P, AES_BLOCK_SIZE))), P)

RECURSIVE CbcDecryptBlocks(_, _, _)
CbcDecryptBlocks(K, prev, C) ==
  IF C = <<>> THEN <<>>
  ELSE Cat(xor16(prev, AesBlockDecrypt(K, Take(C, AES_BLOCK_SIZE))),
           CbcDecryptBlocks(K, Take(C, AES_BLOCK_SIZE), Drop(C, AES_BLOCK_SIZE)))

\* AES-CBC of the platform (subtle.encrypt / createCipheriv('aes-256-cbc'))
PlatformCbcEncrypt(K, iv, P) == CbcEncryptBlocks(K, iv, Pkcs7Pad(P))

\* AES-CBC of the platform (subtle.decrypt / createDecipheriv('aes-256-cbc'))
PlatformCbcDecrypt(K, iv, C, autoPadding, g) ==
  IF BLen(C) % AES_BLOCK_SIZE # 0 THEN Throw("bad decrypt")
  ELSE IF autoPadding THEN Pkcs7Unpad(CbcDecryptBlocks(K, iv, C), g)
  ELSE Ok(CbcDecryptBlocks(K, iv, C))

\* ------------------------------------------------------------------------
\* crypto.ts
\* ------------------------------------------------------------------------
\* The random source: the j-th getRandomBytes call of an operation that was
\* started with the draw `seed`.
getRandomBytes(seed, j, length) ==
  Lit([i \in 1..length |-> (seed + 37 * j + i) % 256])

aes256CbcEncrypt(key, iv, plaintext) ==
  IF BLen(key) # KEY_LENGTH \/ BLen(iv) # AES_BLOCK_SIZE
    THEN Throw("AES-256-CBC: key must be 32 bytes, IV 16 bytes")
  ELSE Ok(PlatformCbcEncrypt(key, iv, plaintext))

aes256CbcDecrypt(key, iv, ciphertext, g) ==
  IF BLen(key) # KEY_LENGTH \/ BLen(iv) # AES_BLOCK_SIZE
    THEN Throw("AES-256-CBC: key must be 32 bytes, IV 16 bytes")
  ELSE IF BLen(ciphertext) % AES_BLOCK_SIZE # 0
    THEN Throw("AES-256-CBC: ciphertext length must be multiple of 16")
  ELSE PlatformCbcDecrypt(key, iv, ciphertext, TRUE, g)

\* mutant: the padding block of the CBC output is not cut off
aes256EcbEncrypt_NoSlice(key, block) ==
  IF BLen(block) # AES_BLOCK_SIZE \/ BLen(key) # KEY_LENGTH
    THEN Throw("AES-256-ECB: 16-byte block, 32-byte key")
  ELSE Ok(PlatformCbcEncrypt(key, Zero16, block))

aes256EcbEncrypt(key, block) ==
  IF BLen(block) # AES_BLOCK_SIZE \/ BLen(key) # KEY_LENGTH
    THEN Throw("AES-256-ECB: 16-byte block, 32-byte key")
  ELSE Ok(Slice(PlatformCbcEncrypt(key, Zero16, block), 0, AES_BLOCK_SIZE))

\* subtle: globalThis.crypto.subtle is present (the Web Crypto branch);
\* otherwise the node:crypto branch with setAutoPadding(false)
\* the two-block trick: c2 is the encryption of FULL_PAD ^ block
EcbDecryptTwoBlocks(key, block, c2, g) ==
  IF ~c2.ok THEN c2
  ELSE PlatformCbcDecrypt(key, Zero16, Cat(block, c2.v), TRUE, g)

\* mutant: the second block is the encryption of FULL_PAD alone
aes256EcbDecrypt_PadNotXored(key, block, subtle, g) ==
  IF BLen(block) # AES_BLOCK_SIZE \/ BLen(key) # KEY_LENGTH
    THEN Throw("AES-256-ECB: 16-byte block, 32-byte key")
  ELSE IF subtle
    THEN EcbDecryptTwoBlocks(key, block, aes256EcbEncrypt(key, Fill(16, 16)), g)
  ELSE PlatformCbcDecrypt(key, Zero16, block, FALSE, g)

aes256EcbDecrypt(key, block, subtle, g) ==
  IF BLen(block) # AES_BLOCK_SIZE \/ BLen(key) # KEY_LENGTH
    THEN Throw("AES-256-ECB: 16-byte block, 32-byte key")
  ELSE IF subtle
    THEN EcbDecryptTwoBlocks(key, block,
                             aes256EcbEncrypt(key, xor16(Fill(16, 16), block)), g)
  ELSE PlatformCbcDecrypt(key, Zero16, block, FALSE, g)

RECURSIVE EncryptNoPaddingLoop(_, _, _)

EncryptNoPaddingPush(enc, rest) ==
  IF ~rest.ok THEN rest ELSE Ok(Cat(enc.v, rest.v))

\* enc: the encryption of prev ^ block, which becomes prev
EncryptNoPaddingStep(key, enc, plaintext) ==
  IF ~enc.ok THEN enc
  ELSE EncryptNoPaddingPush(
         enc, EncryptNoPaddingLoop(key, enc.v, Drop(plaintext, AES_BLOCK_SIZE)))

EncryptNoPaddingLoop(key, prev, plaintext) ==
  IF plaintext = <<>> THEN Ok(<<>>)
  ELSE EncryptNoPaddingStep(
         key, aes256EcbEncrypt(key, xor16(prev, Slice(plaintext, 0, AES_BLOCK_SIZE))),
         plaintext)

aes256CbcEncryptNoPadding(key, iv, plaintext) ==
  IF BLen(plaintext) % AES_BLOCK_SIZE # 0 \/ BLen(iv) # AES_BLOCK_SIZE
    THEN Throw("Plaintext length must be multiple of 16; IV must be 16 bytes")
  ELSE EncryptNoPaddingLoop(key, iv, plaintext)

RECURSIVE DecryptNoPaddingLoop(_, _, _, _, _)

DecryptNoPaddingPush(prev, dec, rest) ==
  IF ~rest.ok THEN rest ELSE Ok(Cat(xor16(prev, dec.v), rest.v))

\* dec: the decryption of the first block of ciphertext
DecryptNoPaddingStep(key, prev, dec, ciphertext, subtle, g) ==
  IF ~dec.ok THEN dec
  ELSE DecryptNoPaddingPush(
         prev, dec,
         DecryptNoPaddingLoop(key, Slice(ciphertext, 0, AES_BLOCK_SIZE),
                              Drop(ciphertext, AES_BLOCK_SIZE), subtle, g))

DecryptNoPaddingLoop(key, prev, ciphertext, subtle, g) ==
  IF ciphertext = <<>> THEN Ok(<<>>)
  ELSE DecryptNoPaddingStep(
         key, prev,
         aes256EcbDecrypt(key, Slice(ciphertext, 0, AES_BLOCK_SIZE), subtle, g),
         ciphertext, subtle, g)

aes256CbcDecryptNoPadding(key, iv, ciphertext, subtle, g) ==
  IF BLen(ciphertext) % AES_BLOCK_SIZE # 0 \/ BLen(iv) # AES_BLOCK_SIZE
    THEN Throw("Ciphertext length must be multiple of 16; IV must be 16 bytes")
  ELSE DecryptNoPaddingLoop(key, iv, ciphertext, subtle, g)

\* ------------------------------------------------------------------------
\* saslprep.ts
\* ------------------------------------------------------------------------
\* TextEncoder().encode of one code point; a lone surrogate becomes U+FFFD
Utf8(cp) ==
  IF cp < 128 THEN <<cp>>
  ELSE IF cp < 2048 THEN <<192 + (cp \div 64), 128 + (cp % 64)>>
  ELSE IF cp >= 55296 /\ cp <= 57343 THEN <<239, 191, 189>>
  ELSE IF cp < 65536
    THEN <<224 + (cp \div 4096), 128 + ((cp \div 64) % 64), 128 + (cp % 64)>>
  ELSE <<240 + (cp \div 262144), 128 + ((cp \div 4096) % 64),
         128 + ((cp \div 64) % 64), 128 + (cp % 64)>>

RECURSIVE TextEncode(_)
TextEncode(str) ==
  IF str = <<>> THEN <<>>
  ELSE IF Len(str) = 1 THEN Utf8(str[1])
  ELSE TextEncode(SubSeq(str, 1, Len(str) \div 2))
       \o TextEncode(SubSeq(str, (Len(str) \div 2) + 1, Len(str)))

\* encoded.length > MAX ? encoded.slice(0, MAX) : encoded
SliceToMax(encoded) ==
  IF Len(encoded) > MAX_PASSWORD_UTF8_BYTES
    THEN SubSeq(encoded, 1, MAX_PASSWORD_UTF8_BYTES)
  ELSE encoded

preparePassword(password) == Lit(SliceToMax(TextEncode(password)))

\* ------------------------------------------------------------------------
\* kdf.ts
\* ------------------------------------------------------------------------
ZERO_IV == Zero16

\* mutant: the bytes are taken from the magnitude of the permissions
PermsByte_Magnitude(permissions, k) ==
  ((IF permissions < 0 THEN -permissions ELSE permissions) \div (256 ^ k)) % 256

\* byte k (0..3) of the little-endian encoding written by
\* p = (permissions >>> 0) & 0xFFFFFFFF; (p >> 8k) & 0xFF
PermsByte(permissions, k) == (permissions \div (256 ^ k)) % 256

PermsBlock(permissions, encryptMetadata, rnd) ==
  Cat(Lit(<<PermsByte(permissions, 0), PermsByte(permissions, 1),
            PermsByte(permissions, 2), PermsByte(permissions, 3),
            255, 255, 255, 255,
            IF encryptMetadata THEN 84 ELSE 70,
            97, 100, 98>>), rnd)

\* mutant: an empty owner password is used as it is
OwnerOrUser_NoDefault(ownerPassword, userPassword) == ownerPassword

\* params.ownerPassword || params.userPassword
OwnerOrUser(ownerPassword, userPassword) ==
  IF ownerPassword = <<>> THEN userPassword ELSE ownerPassword

\* line 292: the keys returned
Rev5Keys(fileEncryptionKey, U, UE, O, OE, Perms, j) ==
  [ok |-> UE.ok /\ OE.ok /\ Perms.ok,
   fileEncryptionKey |-> fileEncryptionKey,
   O |-> O, U |-> U, OE |-> OE.v, UE |-> UE.v, Perms |-> Perms.v,
   draws |-> j + 6]

\* lines 264-290: O and OE, bound to the finished U, and Perms
Rev5Owner(ownerPwd, fileEncryptionKey, U, UE, ownerValSalt, ownerKeySalt, params, seed, j) ==
  Rev5Keys(fileEncryptionKey, U, UE,
           concat(<<sha256(concat(<<ownerPwd, ownerValSalt, U>>)),
                    ownerValSalt, ownerKeySalt>>),
           aes256CbcEncryptNoPadding(sha256(concat(<<ownerPwd, ownerKeySalt, U>>)),
                                     ZERO_IV, fileEncryptionKey),
           aes256EcbEncrypt(fileEncryptionKey,
                            PermsBlock(params.permissions, params.encryptMetadata,
                                       getRandomBytes(seed, j + 5, 4))),
           j)

\* lines 255-266: U and UE, and the owner salts
Rev5User(userPwd, ownerPwd, fileEncryptionKey, userValSalt, userKeySalt, params, seed, j) ==
  Rev5Owner(ownerPwd, fileEncryptionKey,
            concat(<<sha256(concat(<<userPwd, userValSalt>>)),
                     userValSalt, userKeySalt>>),
            aes256CbcEncryptNoPadding(sha256(concat(<<userPwd, userKeySalt>>)),
                                      ZERO_IV, fileEncryptionKey),
            getRandomBytes(seed, j + 3, 8), getRandomBytes(seed, j + 4, 8),
            params, seed, j)

\* seed, j: the random source and the number of draws already made
computeRev5Keys(params, seed, j) ==
  Rev5User(preparePassword(params.userPassword),
           preparePassword(OwnerOrUser(params.ownerPassword, params.userPassword)),
           getRandomBytes(seed, j, 32),
           getRandomBytes(seed, j + 1, 8), getRandomBytes(seed, j + 2, 8),
           params, seed, j)

\* mutant: the comparison reports equality for any two hashes
compareBytes_AlwaysEqual(a, b) == 0

compareBytes(a, b) ==
  IF BLen(a) # BLen(b) THEN 1
  ELSE IF a # b THEN 1
  ELSE 0

\* a[i] !== b[i] is certain for the one-byte strings x and y: known bytes that
\* differ, or a byte and the same byte with one bit inverted
ByteMustDiffer(x, y) ==
  /\ x # y
  /\ \/ x[1].op = "lit" /\ y[1].op = "lit"
     \/ x[1].op = "flip" /\ x[1].of = y
     \/ y[1].op = "flip" /\ y[1].of = x

\* the loop of compareBytes from position i on: the numbers of positions it
\* can have inspected when it returns 1 (bytes of different hash values that
\* are not known may or may not differ at a given position)
RECURSIVE MismatchCounts(_, _, _)
MismatchCounts(a, b, i) ==
  IF i >= BLen(a) THEN {}
  ELSE IF Slice(a, i, i + 1) = Slice(b, i, i + 1) THEN MismatchCounts(a, b, i + 1)
  ELSE IF ByteMustDiffer(Slice(a, i, i + 1), Slice(b, i, i + 1)) THEN {i + 1}
  ELSE {i + 1} \cup MismatchCounts(a, b, i + 1)

\* the numbers of byte positions compareBytes(a, b) can inspect
compareBytesInspected(a, b) ==
  IF BLen(a) # BLen(b) THEN {0}
  ELSE IF a = b THEN {BLen(a)}
  ELSE MismatchCounts(a, b, 0)

NoKey == [found |-> FALSE, key |-> <<>>, role |-> "none"]

\* if (compareBytes(check, hash) === 0) { key = decrypt(...); if (key.length === 32) return key }
KeyIfValid(compared, key, role) ==
  IF compared = 0 /\ key.ok /\ BLen(key.v) = 32
    THEN [found |-> TRUE, key |-> key.v, role |-> role]
  ELSE NoKey

\* lines 308-320: the user attempt
UserAttempt(pwd, U, UE, subtle, g) ==
  KeyIfValid(compareBytes(sha256(concat(<<pwd, Slice(U, 32, 40)>>)), Slice(U, 0, 32)),
             aes256CbcDecryptNoPadding(sha256(concat(<<pwd, Slice(U, 40, 48)>>)),
                                       ZERO_IV, UE, subtle, g),
             "user")

\* mutant: the owner check and key leave U out of the hashed data
OwnerAttempt_NoU(pwd, U, O, OE, subtle, g) ==
  KeyIfValid(compareBytes(sha256(concat(<<pwd, Slice(O, 32, 40)>>)), Slice(O, 0, 32)),
             aes256CbcDecryptNoPadding(sha256(concat(<<pwd, Slice(O, 40, 48)>>)),
                                       ZERO_IV, OE, subtle, g),
             "owner")

\* lines 322-334: the owner attempt
OwnerAttempt(pwd, U, O, OE, subtle, g) ==
  KeyIfValid(compareBytes(sha256(concat(<<pwd, Slice(O, 32, 40), U>>)), Slice(O, 0, 32)),
             aes256CbcDecryptNoPadding(sha256(concat(<<pwd, Slice(O, 40, 48), U>>)),
                                       ZERO_IV, OE, subtle, g),
             "owner")

\* mutant: the owner role is tried first
UserElseOwner_OwnerFirst(user, pwd, U, O, OE, subtle, g) ==
  IF OwnerAttempt(pwd, U, O, OE, subtle, g).found
    THEN OwnerAttempt(pwd, U, O, OE, subtle, g)
  ELSE user

\* user: the outcome of the user attempt
UserElseOwner(user, pwd, U, O, OE, subtle, g) ==
  IF user.found THEN user ELSE OwnerAttempt(pwd, U, O, OE, subtle, g)

deriveFileKeyFromPassword(password, U, O, OE, UE, subtle, g) ==
  UserElseOwner(UserAttempt(preparePassword(password), U, UE, subtle, g),
                preparePassword(password), U, O, OE, subtle, g)

\* ------------------------------------------------------------------------
\* The object graph (pdf-lib objects, as far as the walkers look at them)
\* ------------------------------------------------------------------------
PDFNameOf(n) == [type |-> "name", n |-> n]
PDFNumberOf(n) == [type |-> "num", n |-> n]
PDFBoolOf(b) == [type |-> "bool", t |-> b]
PDFStringOf(bytes) == [type |-> "str", b |-> bytes]
PDFHexStringOf(hex) == [type |-> "hex", h |-> hex]
PDFDictOf(entries) == [type |-> "dict", e |-> entries]
PDFArrayOf(elements) == [type |-> "arr", a |-> elements]
PDFRawStreamOf(dict, contents) == [type |-> "stream", d |-> dict, c |-> contents]
PDFRefOf(n) == [type |-> "ref", r |-> n]
Undefined == [type |-> "undefined"]

Entry(key, val) == [key |-> key, val |-> val]

IsString(value) == value.type \in {"str", "hex"}

\* bytesToHex: two hexadecimal digits (0..15) per byte
HexDigits(v) ==
  [i \in 1..(2 * Len(v)) |-> IF i % 2 = 1 THEN v[(i + 1) \div 2] \div 16
                                            ELSE v[i \div 2] % 16]

ChunkToHex(c) ==
  IF c.op = "lit" THEN [op |-> "lit", v |-> HexDigits(c.v)]
  ELSE [op |-> "hex", of |-> <<c>>, lo |-> 1, hi |-> 2 * ChunkLen(c)]

RECURSIVE bytesToHex(_)
bytesToHex(bytes) ==
  IF bytes = <<>> THEN <<>>
  ELSE <<ChunkToHex(Head(bytes))>> \o bytesToHex(Tail(bytes))

\* PDFHexString.asBytes: pairs of digits, a trailing single digit padded with 0
HexPairs(v) ==
  [i \in 1..((Len(v) + 1) \div 2) |->
     16 * v[2 * i - 1] + (IF 2 * i <= Len(v) THEN v[2 * i] ELSE 0)]

ChunkFromHex(c) ==
  IF c.op = "lit" THEN Lit(HexPairs(c.v))
  ELSE IF c.op = "hex" /\ c.lo = 1 /\ c.hi = 2 * BLen(c.of) THEN c.of
  ELSE <<[op |-> "unhex", of |-> <<c>>, lo |-> 1, hi |-> (ChunkLen(c) + 1) \div 2]>>

RECURSIVE HexToBytes(_)
HexToBytes(hex) ==
  IF hex = <<>> THEN <<>>
  ELSE Cat(ChunkFromHex(Head(hex)), HexToBytes(Tail(hex)))

asBytes(value) == IF value.type = "hex" THEN HexToBytes(value.h) ELSE value.b

\* dict.get(PDFName.of(key))
RECURSIVE DictIndex(_, _, _)
DictIndex(entries, key, i) ==
  IF i > Len(entries) THEN 0
  ELSE IF entries[i].key = key THEN i
  ELSE DictIndex(entries, key, i + 1)

\* dict.get(PDFName.of(key))
ValueAt(dict, i) == IF i = 0 THEN Undefined ELSE dict.e[i].val

DictGet(dict, key) == ValueAt(dict, DictIndex(dict.e, key, 1))

\* dict.set(PDFName.of(key), value)
SetAt(dict, i, key, value) ==
  IF i = 0 THEN [dict EXCEPT !.e = Append(dict.e, Entry(key, value))]
  ELSE [dict EXCEPT !.e[i].val = value]

DictSet(dict, key, value) == SetAt(dict, DictIndex(dict.e, key, 1), key, value)

\* context.lookup(ref) on the indirect objects
Lookup(objs, value) ==
  IF value.type = "ref"
    THEN IF value.r \in 1..Len(objs) THEN objs[value.r] ELSE Undefined
  ELSE value

\* mutant: the decode parameters are walked like any other entry
ReservedKeys_NoDecodeParms == {"/Length", "/Filter"}

\* n === '/Length' || n === '/Filter' || n === '/DecodeParms'
ReservedKeys == {"/Length", "/Filter", "/DecodeParms"}

StandardText == Lit(<<47, 83, 116, 97, 110, 100, 97, 114, 100>>)

\* the skip test of both walkers (encrypt.ts 112-115, decrypt.ts 114-117):
\*   "skip" when obj is a PDFDict whose Filter's asString() is '/Standard',
\*   "throw" when the Filter entry has no asString method
\* mutant: no dictionary is skipped for its Filter
FilterTest_NoSkip(filter) ==
  IF filter.type \in {"undefined", "name", "str", "hex"} THEN "walk" ELSE "throw"

FilterTest(filter) ==
  IF filter.type = "undefined" THEN "walk"
  ELSE IF filter.type = "name"
    THEN IF filter.n = "/Standard" THEN "skip" ELSE "walk"
  ELSE IF filter.type = "str"
    THEN IF filter.b = StandardText THEN "skip" ELSE "walk"
  ELSE IF filter.type = "hex" THEN "walk"
  ELSE "throw"

SkipTest(obj) ==
  IF obj.type # "dict" THEN "walk" ELSE FilterTest(DictGet(obj, "/Filter"))

\* the IV in front of the ciphertext
PrependIv(iv, ciphertext) ==
  IF ~ciphertext.ok THEN ciphertext ELSE Ok(Cat(iv, ciphertext.v))

\* mutant: the ciphertext is returned without the IV in front of it
encryptObject_NoIv(data, fileKey, seed, j) ==
  aes256CbcEncrypt(fileKey, getRandomBytes(seed, j, IV_LEN), data)

\* mutant: the payload is encrypted under a zero IV, not the IV that is stored
encryptObject_ZeroIv(data, fileKey, seed, j) ==
  PrependIv(getRandomBytes(seed, j, IV_LEN), aes256CbcEncrypt(fileKey, Zero16, data))

encryptObject(data, fileKey, seed, j) ==
  PrependIv(getRandomBytes(seed, j, IV_LEN),
            aes256CbcEncrypt(fileKey, getRandomBytes(seed, j, IV_LEN), data))

\* the result of a walk: the container as left by it, the number of random
\* draws made so far, and the error thrown ("" for none)
Walked(v, draws, err) == [v |-> v, draws |-> draws, err |-> err]

RECURSIVE encryptStringsInDict(_, _, _, _, _)
RECURSIVE encryptStringsInArray(_, _, _, _, _)

\* dict.set(key, PDFHexString.of(bytesToHex(encrypted))), and the loop goes on
DictStringEncrypted(dict, i, encrypted, fileKey, seed, j) ==
  IF ~encrypted.ok THEN Walked(dict, j + 1, encrypted.err)
  ELSE encryptStringsInDict(
         [dict EXCEPT !.e[i].val = PDFHexStringOf(bytesToHex(encrypted.v))],
         i + 1, fileKey, seed, j + 1)

\* r: the walk of the dictionary or array that is the value of entry i
DictValueWalked(dict, i, r, fileKey, seed) ==
  IF r.err # "" THEN Walked([dict EXCEPT !.e[i].val = r.v], r.draws, r.err)
  ELSE encryptStringsInDict([dict EXCEPT !.e[i].val = r.v], i + 1, fileKey, seed, r.draws)

\* r: the walk of the dictionary or array that is element i
ArrayElementWalked(arr, i, r, fileKey, seed) ==
  IF r.err # "" THEN Walked([arr EXCEPT !.a[i] = r.v], r.draws, r.err)
  ELSE encryptStringsInArray([arr EXCEPT !.a[i] = r.v], i + 1, fileKey, seed, r.draws)

\* i: the position of the for-loop over dict.entries()
encryptStringsInDict(dict, i, fileKey, seed, j) ==
  IF i > Len(dict.e) THEN Walked(dict, j, "")
  ELSE IF dict.e[i].key \in ReservedKeys
    THEN encryptStringsInDict(dict, i + 1, fileKey, seed, j)
  ELSE IF IsString(dict.e[i].val)
    THEN DictStringEncrypted(dict, i,
                             encryptObject(asBytes(dict.e[i].val), fileKey, seed, j),
                             fileKey, seed, j)
  ELSE IF dict.e[i].val.type = "dict"
    THEN DictValueWalked(dict, i,
                         encryptStringsInDict(dict.e[i].val, 1, fileKey, seed, j),
                         fileKey, seed)
  ELSE IF dict.e[i].val.type = "arr"
    THEN DictValueWalked(dict, i,
                         encryptStringsInArray(dict.e[i].val, 1, fileKey, seed, j),
                         fileKey, seed)
  ELSE encryptStringsInDict(dict, i + 1, fileKey, seed, j)

\* i: the position of the for-loop over arr.asArray()
encryptStringsInArray(arr, i, fileKey, seed, j) ==
  IF i > Len(arr.a) THEN Walked(arr, j, "")
  ELSE IF arr.a[i].type = "dict"
    THEN ArrayElementWalked(arr, i,
                            encryptStringsInDict(arr.a[i], 1, fileKey, seed, j),
                            fileKey, seed)
  ELSE IF arr.a[i].type = "arr"
    THEN ArrayElementWalked(arr, i,
                            encryptStringsInArray(arr.a[i], 1, fileKey, seed, j),
                            fileKey, seed)
  ELSE encryptStringsInArray(arr, i + 1, fileKey, seed, j)

\* lines 110-126 of encryptPDF: the loop over context.enumerateIndirectObjects()
RECURSIVE EncryptObjects(_, _, _, _, _)

\* obj.contents = encrypted, and the loop goes on
StreamEncrypted(objs, i, encrypted, fileKey, seed, j) ==
  IF ~encrypted.ok THEN Walked(objs, j + 1, encrypted.err)
  ELSE EncryptObjects([objs EXCEPT ![i].c = encrypted.v], i + 1, fileKey, seed, j + 1)

\* r: the walk of the dictionary or array that is object i
ObjectWalked(objs, i, r, fileKey, seed) ==
  IF r.err # "" THEN Walked([objs EXCEPT ![i] = r.v], r.draws, r.err)
  ELSE EncryptObjects([objs EXCEPT ![i] = r.v], i + 1, fileKey, seed, r.draws)

EncryptObjects(objs, i, fileKey, seed, j) ==
  IF i > Len(objs) THEN Walked(objs, j, "")
  ELSE IF SkipTest(objs[i]) = "throw" THEN Walked(objs, j, "TypeError")
  ELSE IF SkipTest(objs[i]) = "skip" THEN EncryptObjects(objs, i + 1, fileKey, seed, j)
  ELSE IF objs[i].type = "stream"
    THEN StreamEncrypted(objs, i, encryptObject(objs[i].c, fileKey, seed, j),
                         fileKey, seed, j)
  ELSE IF objs[i].type = "dict"
    THEN ObjectWalked(objs, i, encryptStringsInDict(objs[i], 1, fileKey, seed, j),
                      fileKey, seed)
  ELSE IF objs[i].type = "arr"
    THEN ObjectWalked(objs, i, encryptStringsInArray(objs[i], 1, fileKey, seed, j),
                      fileKey, seed)
  ELSE EncryptObjects(objs, i + 1, fileKey, seed, j)

\* lines 128-153: the Encrypt dictionary
EncryptDict(keys, permissions, encryptMetadata) ==
  PDFDictOf(<<
    Entry("/Filter", PDFNameOf("/Standard")),
    Entry("/V", PDFNumberOf(5)),
    Entry("/R", PDFNumberOf(5)),
    Entry("/Length", PDFNumberOf(256)),
    Entry("/P", PDFNumberOf(permissions)),
    Entry("/O", PDFHexStringOf(bytesToHex(keys.O))),
    Entry("/U", PDFHexStringOf(bytesToHex(keys.U))),
    Entry("/OE", PDFHexStringOf(bytesToHex(keys.OE))),
    Entry("/UE", PDFHexStringOf(bytesToHex(keys.UE))),
    Entry("/Perms", PDFHexStringOf(bytesToHex(keys.Perms))),
    Entry("/EncryptMetadata", PDFBoolOf(encryptMetadata)),
    Entry("/CF", PDFDictOf(<<
      Entry("/StdCF", PDFDictOf(<<Entry("/Type", PDFNameOf("/CryptFilter")),
                                  Entry("/CFM", PDFNameOf("/AESV3")),
                                  Entry("/Length", PDFNumberOf(32))>>))>>)),
    Entry("/StmF", PDFNameOf("/StdCF")),
    Entry("/StrF", PDFNameOf("/StdCF"))>>)

\* no owner password argument
Absent == <<-1>>

\* The result of encryptPDF: the error thrown ("" for none), the document
\* returned, and the keys computed (not part of the output; kept for the
\* properties).
EncryptResult(err, out, keys) == [err |-> err, out |-> out, keys |-> keys]

\* lines 93-99: trailer.ID, created from 16 random bytes when it is missing
TrailerID(pdf, seed) ==
  IF pdf.trailer.ID # <<>> THEN pdf.trailer.ID
  ELSE <<PDFHexStringOf(bytesToHex(getRandomBytes(seed, 0, 16))),
         PDFHexStringOf(bytesToHex(getRandomBytes(seed, 0, 16)))>>

\* lines 155-158: the Encrypt dictionary is registered and the document saved
EncryptSaved(ID, keys, objs) ==
  EncryptResult("", [objs |-> objs,
                     trailer |-> [Encrypt |-> PDFRefOf(Len(objs)), ID |-> ID]],
                keys)

\* walk: the outcome of the loop over the indirect objects
EncryptWalked(pdf, keys, walk, permissions, encryptMetadata, seed) ==
  IF walk.err # "" THEN EncryptResult(walk.err, pdf, keys)
  ELSE EncryptSaved(TrailerID(pdf, seed), keys,
                    Append(walk.v, EncryptDict(keys, permissions, encryptMetadata)))

EncryptWithKeys(pdf, keys, permissions, encryptMetadata, seed) ==
  IF ~keys.ok THEN EncryptResult("computeRev5Keys", pdf, keys)
  ELSE EncryptWalked(pdf, keys,
                     EncryptObjects(pdf.objs, 1, keys.fileEncryptionKey, seed, keys.draws),
                     permissions, encryptMetadata, seed)

EncryptWithOptions(pdf, userPassword, ownerPassword, permissions, encryptMetadata, seed) ==
  EncryptWithKeys(pdf,
                  computeRev5Keys(
                    [userPassword |-> userPassword,
                     ownerPassword |-> IF ownerPassword = Absent THEN userPassword
                                       ELSE ownerPassword,
                     permissions |-> permissions,
                     encryptMetadata |-> encryptMetadata],
                    seed, IF pdf.trailer.ID # <<>> THEN 0 ELSE 1),
                  permissions, encryptMetadata, seed)

\* options: permissions is <<>> (not given) or <<p>>; encryptMetadata is
\* "undefined", "true" or "false".
encryptPDF(pdf, userPassword, ownerPassword, options, seed) ==
  EncryptWithOptions(pdf, userPassword, ownerPassword,
                     IF options.permissions = <<>> THEN -4 ELSE options.permissions[1],
                     options.encryptMetadata # "false", seed)

\* null is the empty result with found = FALSE
BytesOrNull(v) ==
  IF IsString(v) THEN [found |-> TRUE, bytes |-> asBytes(v)]
  ELSE [found |-> FALSE, bytes |-> <<>>]

getEncryptBytes(dict, key) == BytesOrNull(DictGet(dict, key))

\* mutant: the IV is taken to be part of the ciphertext
decryptObject_NoIvSplit(data, fileKey, g) ==
  IF BLen(data) < IV_LEN + 16 THEN Throw("Encrypted object too short")
  ELSE aes256CbcDecrypt(fileKey, Zero16, data, g)

decryptObject(data, fileKey, g) ==
  IF BLen(data) < IV_LEN + 16 THEN Throw("Encrypted object too short")
  ELSE aes256CbcDecrypt(fileKey, Slice(data, 0, IV_LEN), Drop(data, IV_LEN), g)

RECURSIVE decryptStringsInDict(_, _, _, _)
RECURSIVE decryptStringsInArray(_, _, _, _)

\* try { dict.set(key, PDFHexString.of(bytesToHex(decrypted))) } catch { }
DictStringDecrypted(dict, i, decrypted, fileKey, g) ==
  IF ~decrypted.ok THEN decryptStringsInDict(dict, i + 1, fileKey, g)
  ELSE decryptStringsInDict(
         [dict EXCEPT !.e[i].val = PDFHexStringOf(bytesToHex(decrypted.v))],
         i + 1, fileKey, g)

decryptStringsInDict(dict, i, fileKey, g) ==
  IF i > Len(dict.e) THEN dict
  ELSE IF dict.e[i].key \in ReservedKeys
    THEN decryptStringsInDict(dict, i + 1, fileKey, g)
  ELSE IF IsString(dict.e[i].val)
    THEN IF BLen(asBytes(dict.e[i].val)) < IV_LEN + 16
           THEN decryptStringsInDict(dict, i + 1, fileKey, g)
         ELSE DictStringDecrypted(dict, i,
                                  decryptObject(asBytes(dict.e[i].val), fileKey, g),
                                  fileKey, g)
  ELSE IF dict.e[i].val.type = "dict"
    THEN decryptStringsInDict(
           [dict EXCEPT !.e[i].val = decryptStringsInDict(dict.e[i].val, 1, fileKey, g)],
           i + 1, fileKey, g)
  ELSE IF dict.e[i].val.type = "arr"
    THEN decryptStringsInDict(
           [dict EXCEPT !.e[i].val = decryptStringsInArray(dict.e[i].val, 1, fileKey, g)],
           i + 1, fileKey, g)
  ELSE decryptStringsInDict(dict, i + 1, fileKey, g)

decryptStringsInArray(arr, i, fileKey, g) ==
  IF i > Len(arr.a) THEN arr
  ELSE IF arr.a[i].type = "dict"
    THEN decryptStringsInArray(
           [arr EXCEPT !.a[i] = decryptStringsInDict(arr.a[i], 1, fileKey, g)],
           i + 1, fileKey, g)
  ELSE IF arr.a[i].type = "arr"
    THEN decryptStringsInArray(
           [arr EXCEPT !.a[i] = decryptStringsInArray(arr.a[i], 1, fileKey, g)],
           i + 1, fileKey, g)
  ELSE decryptStringsInArray(arr, i + 1, fileKey, g)

\* lines 112-128 of decryptPDF: the loop over context.enumerateIndirectObjects()
RECURSIVE DecryptObjects(_, _, _, _)

\* mutant: a stream that does not decrypt is left as it is, like a string
StreamDecrypted_Swallow(objs, i, decrypted, fileKey, g) ==
  IF ~decrypted.ok THEN DecryptObjects(objs, i + 1, fileKey, g)
  ELSE DecryptObjects([objs EXCEPT ![i].c = decrypted.v], i + 1, fileKey, g)

\* obj.contents = decrypted, and the loop goes on
StreamDecrypted(objs, i, decrypted, fileKey, g) ==
  IF ~decrypted.ok THEN [v |-> objs, err |-> decrypted.err]
  ELSE DecryptObjects([objs EXCEPT ![i].c = decrypted.v], i + 1, fileKey, g)

DecryptObjects(objs, i, fileKey, g) ==
  IF i > Len(objs) THEN [v |-> objs, err |-> ""]
  ELSE IF SkipTest(objs[i]) = "throw" THEN [v |-> objs, err |-> "TypeError"]
  ELSE IF SkipTest(objs[i]) = "skip" THEN DecryptObjects(objs, i + 1, fileKey, g)
  ELSE IF objs[i].type = "stream"
    THEN StreamDecrypted(objs, i, decryptObject(objs[i].c, fileKey, g), fileKey, g)
  ELSE IF objs[i].type = "dict"
    THEN DecryptObjects([objs EXCEPT ![i] = decryptStringsInDict(objs[i], 1, fileKey, g)],
                        i + 1, fileKey, g)
  ELSE IF objs[i].type = "arr"
    THEN DecryptObjects([objs EXCEPT ![i] = decryptStringsInArray(objs[i], 1, fileKey, g)],
                        i + 1, fileKey, g)
  ELSE DecryptObjects(objs, i + 1, fileKey, g)

\* mutant: the scheme is refused only when both numbers are off
UnsupportedScheme_Both(r, v) == r # 5 /\ v # 5

\* r !== 5 || v !== 5
UnsupportedScheme(r, v) == r # 5 \/ v # 5

\* mutant: the reference to the descriptor stays in the trailer
RemoveEncrypt_Keep(trailer) == trailer

\* delete trailer.Encrypt
RemoveEncrypt(trailer) == [trailer EXCEPT !.Encrypt = Undefined]

\* R && 'asNumber' in R ? R.asNumber() : 0
AsNumberOr0(value) == IF value.type = "num" THEN value.n ELSE 0

ErrNotEncrypted == "PDF is not encrypted"
ErrInvalidDict == "Invalid Encrypt dictionary"
ErrUnsupported == "Unsupported encryption: Only AES-256 (R=5, V=5) is supported."
ErrInvalidLengths == "Invalid Encrypt dictionary: O, U, OE, UE"
ErrWrongPassword == "Wrong password"

\* The result: the error thrown ("" for none); the document returned (out,
\* the input when the call throws); the object graph in memory when the call
\* ended (graph); whether deriveFileKeyFromPassword was called (derived) and
\* what it returned (key).
DecryptResult(err, out, graph, derived, key) ==
  [err |-> err, out |-> out, graph |-> graph, derived |-> derived, key |-> key]

\* lines 112-132: walk: the outcome of the loop over the indirect objects
DecryptWalked(pdf, fileKey, walk) ==
  IF walk.err # "" THEN DecryptResult(walk.err, pdf, walk.v, TRUE, fileKey)
  ELSE DecryptResult("", [objs |-> walk.v, trailer |-> RemoveEncrypt(pdf.trailer)],
                     walk.v, TRUE, fileKey)

\* lines 107-110: fileKey: what deriveFileKeyFromPassword returned
DecryptWithKey(pdf, fileKey, g) ==
  IF ~fileKey.found THEN DecryptResult(ErrWrongPassword, pdf, pdf.objs, TRUE, fileKey)
  ELSE DecryptWalked(pdf, fileKey, DecryptObjects(pdf.objs, 1, fileKey.key, g))

\* mutant: the four entries go to the key recovery without the length test
DecryptWithEntries_NoLengthTest(pdf, O, U, OE, UE, password, subtle, g) ==
  DecryptWithKey(pdf,
                 deriveFileKeyFromPassword(password, U.bytes, O.bytes, OE.bytes,
                                           UE.bytes, subtle, g),
                 g)

\* lines 96-107: O, U, OE, UE: what getEncryptBytes returned
DecryptWithEntries(pdf, O, U, OE, UE, password, subtle, g) ==
  IF \/ ~O.found \/ ~U.found \/ ~OE.found \/ ~UE.found
     \/ BLen(O.bytes) # 48 \/ BLen(U.bytes) # 48
     \/ BLen(OE.bytes) # 32 \/ BLen(UE.bytes) # 32
    THEN DecryptResult(ErrInvalidLengths, pdf, pdf.objs, FALSE, NoKey)
  ELSE DecryptWithKey(pdf,
                      deriveFileKeyFromPassword(password, U.bytes, O.bytes, OE.bytes,
                                                UE.bytes, subtle, g),
                      g)

\* lines 85-99: encryptDict: context.lookup(encryptRef)
DecryptWithDict(pdf, encryptDict, password, subtle, g) ==
  IF encryptDict.type # "dict"
    THEN DecryptResult(ErrInvalidDict, pdf, pdf.objs, FALSE, NoKey)
  ELSE IF UnsupportedScheme(AsNumberOr0(Lookup(pdf.objs, DictGet(encryptDict, "/R"))),
                            AsNumberOr0(Lookup(pdf.objs, DictGet(encryptDict, "/V"))))
    THEN DecryptResult(ErrUnsupported, pdf, pdf.objs, FALSE, NoKey)
  ELSE DecryptWithEntries(pdf,
                          getEncryptBytes(encryptDict, "/O"),
                          getEncryptBytes(encryptDict, "/U"),
                          getEncryptBytes(encryptDict, "/OE"),
                          getEncryptBytes(encryptDict, "/UE"),
                          password, subtle, g)

decryptPDF(pdf, password, subtle, g) ==
  IF pdf.trailer.Encrypt.type = "undefined"
    THEN DecryptResult(ErrNotEncrypted, pdf, pdf.objs, FALSE, NoKey)
  ELSE DecryptWithDict(pdf, Lookup(pdf.objs, pdf.trailer.Encrypt), password, subtle, g)

\* ------------------------------------------------------------------------
\* Documents, passwords and options the operations are applied to
\* ------------------------------------------------------------------------
\* "Hello, cryptpdf!": 16 bytes
Leaf16 == Lit(<<72, 101, 108, 108, 111, 44, 32, 99, 114, 121, 112, 116, 112, 100, 102, 33>>)

\* a one-leaf document without a trailer ID
DocMin ==
  [objs |-> <<PDFDictOf(<<Entry("/Type", PDFNameOf("/Catalog")),
                          Entry("/Pages", PDFRefOf(2))>>),
              PDFRawStreamOf(PDFDictOf(<<Entry("/Length", PDFNumberOf(16))>>), Leaf16)>>,
   trailer |-> [Encrypt |-> Undefined, ID |-> <<>>]]

\* a document with every kind of node the walkers distinguish
DocRich ==
  [objs |-> <<
     PDFDictOf(<<
       Entry("/Type", PDFNameOf("/Catalog")),
       Entry("/Title", PDFStringOf(Lit(<<72, 105>>))),
       Entry("/Info", PDFDictOf(<<Entry("/Author", PDFHexStringOf(bytesToHex(Lit(<<65, 66>>))))>>)),
       Entry("/Kids", PDFArrayOf(<<
          PDFDictOf(<<Entry("/S", PDFStringOf(Lit(<<120>>)))>>),
          PDFStringOf(Lit(<<105, 110, 32, 97, 114, 114, 97, 121>>)),
          PDFArrayOf(<<PDFDictOf(<<Entry("/T", PDFStringOf(<<>>))>>)>>)>>)),
       Entry("/Length", PDFStringOf(Lit(<<108, 101, 110>>))),
       Entry("/DecodeParms", PDFDictOf(<<Entry("/K", PDFStringOf(Lit(<<107>>)))>>)),
       Entry("/Next", PDFRefOf(2))>>),
     PDFRawStreamOf(PDFDictOf(<<Entry("/Length", PDFNumberOf(5)),
                                Entry("/Filter", PDFNameOf("/FlateDecode")),
                                Entry("/Note", PDFStringOf(Lit(<<110>>)))>>),
                    Lit(<<1, 2, 3, 4, 5>>)),
     PDFArrayOf(<<PDFStringOf(Fill(32, 46)),
                  PDFDictOf(<<Entry("/A", PDFStringOf(Fill(17, 97)))>>)>>),
     PDFStringOf(Lit(<<116, 111, 112>>)),
     PDFRawStreamOf(PDFDictOf(<<Entry("/Length", PDFNumberOf(0))>>), <<>>),
     PDFDictOf(<<Entry("/Filter", PDFNameOf("/Standard")),
                 Entry("/X", PDFStringOf(Lit(<<107, 101, 101, 112>>)))>>),
     PDFRawStreamOf(PDFDictOf(<<Entry("/Type", PDFNameOf("/Metadata")),
                                Entry("/Subtype", PDFNameOf("/XML")),
                                Entry("/Length", PDFNumberOf(4))>>),
                    Lit(<<60, 120, 47, 62>>))>>,
   trailer |-> [Encrypt |-> Undefined,
                ID |-> <<PDFHexStringOf(bytesToHex(Lit(<<7, 7>>))),
                         PDFHexStringOf(bytesToHex(Lit(<<7, 7>>)))>>]]

Docs == {DocMin, DocRich}

\* passwords as sequences of code points
PwA == <<97>>
PwB == <<98, 233>>
PwEmpty == <<>>
\* two passwords of 128 bytes with the same first 127 bytes
PwLongX == [i \in 1..127 |-> 97] \o <<120>>
PwLongY == [i \in 1..127 |-> 97] \o <<121>>

Passwords == {PwA, PwB, PwEmpty, PwLongX, PwLongY}

DefaultOptions == [permissions |-> <<>>, encryptMetadata |-> "undefined"]

\* the arguments of an encryptPDF call and the random source it draws from
EncryptInputs ==
  { [userPassword |-> PwA, ownerPassword |-> PwB, options |-> DefaultOptions, seed |-> 0],
    [userPassword |-> PwA, ownerPassword |-> Absent,
     options |-> [permissions |-> <<-3904>>, encryptMetadata |-> "true"], seed |-> 101],
    [userPassword |-> PwA, ownerPassword |-> PwEmpty, options |-> DefaultOptions, seed |-> 101],
    [userPassword |-> PwA, ownerPassword |-> PwA,
     options |-> [permissions |-> <<2147483647>>, encryptMetadata |-> "false"], seed |-> 0],
    [userPassword |-> PwEmpty, ownerPassword |-> PwB,
     options |-> [permissions |-> <<-2147483647>>, encryptMetadata |-> "undefined"], seed |-> 101],
    [userPassword |-> PwLongX, ownerPassword |-> PwB, options |-> DefaultOptions, seed |-> 0] }

\* the arguments of the encryptPDF calls that follow the first one
ReEncryptInputs ==
  { [userPassword |-> PwB, ownerPassword |-> PwA, options |-> DefaultOptions, seed |-> 101],
    [userPassword |-> PwA, ownerPassword |-> Absent,
     options |-> [permissions |-> <<1028>>, encryptMetadata |-> "false"], seed |-> 0] }

\* outcomes of a padding check on bytes the model does not know
PadOutcomes == {0, 3}

\* objects that are not encrypted, as an encrypted document may hold them:
\* a stream of 5 bytes, a stream of 32 bytes, and a dictionary with strings of
\* 1, 32 and 31 bytes
ShortStream ==
  PDFRawStreamOf(PDFDictOf(<<Entry("/Length", PDFNumberOf(5))>>), Lit(<<1, 2, 3, 4, 5>>))

PlainStream32 ==
  PDFRawStreamOf(PDFDictOf(<<Entry("/Length", PDFNumberOf(32))>>), Fill(32, 7))

PlainStrings ==
  PDFDictOf(<<Entry("/A", PDFStringOf(Lit(<<115>>))),
              Entry("/B", PDFStringOf(Fill(32, 66))),
              Entry("/C", PDFHexStringOf(bytesToHex(Fill(31, 67))))>>)

\* the object that is replaced, and the object put in its place
PlantChoices == {<<1, PlainStrings>>, <<2, ShortStream>>, <<2, PlainStream32>>}

\* ------------------------------------------------------------------------
\* The state
\* ------------------------------------------------------------------------
VARIABLES
  orig,     \* the document D the run started from
  doc,      \* the document at hand: the output of the last call that returned one
  subtle,   \* whether globalThis.crypto.subtle is present
  hist,     \* the operations that produced doc from orig, in order
  creds,    \* the arguments and keys of the successful encryptPDF calls, in order
  last      \* the last top-level call and its outcome

vars == <<orig, doc, subtle, hist, creds, last>>

\* bound of the model: the number of encryptPDF calls in a run
MaxEncrypts == 2

Op(op, arg) == [op |-> op, arg |-> arg]

RECURSIVE CountOps(_, _)
CountOps(h, ops) ==
  IF h = <<>> THEN 0
  ELSE (IF Head(h).op \in ops THEN 1 ELSE 0) + CountOps(Tail(h), ops)

Call(op, pw, at, err, derived, modified, key) ==
  [op |-> op, pw |-> pw, at |-> at, err |-> err, derived |-> derived,
   modified |-> modified, key |-> key]

Init ==
  /\ orig \in Docs
  /\ doc = orig
  /\ subtle \in BOOLEAN
  /\ hist = <<>>
  /\ creds = <<>>
  /\ last = Call("none", <<>>, 0, "", FALSE, FALSE, NoKey)

\* encryptPDF(doc, userPassword, ownerPassword, options), applied to the
\* original document or to an output of encryptPDF or decryptPDF
Encrypt(in) ==
  /\ CountOps(hist, {"encrypt"}) < MaxEncrypts
  /\ CountOps(hist, {"encrypt", "decrypt"}) = Len(hist)
  /\ \E r \in {encryptPDF(doc, in.userPassword, in.ownerPassword, in.options, in.seed)} :
        /\ doc' = r.out
        /\ hist' = IF r.err = "" THEN Append(hist, Op("encrypt", <<>>)) ELSE hist
        /\ creds' = IF r.err = "" THEN Append(creds, [in |-> in, keys |-> r.keys]) ELSE creds
        /\ last' = Call("encrypt", in.userPassword, Len(hist), r.err, FALSE,
                        r.out.objs # doc.objs, NoKey)
  /\ UNCHANGED <<orig, subtle>>

\* decryptPDF(doc, password)
Decrypt(password, g) ==
  /\ \E r \in {decryptPDF(doc, password, subtle, g)} :
        /\ doc' = r.out
        /\ hist' = IF r.err = "" THEN Append(hist, Op("decrypt", <<>>)) ELSE hist
        /\ last' = Call("decrypt", password, Len(hist), r.err, r.derived,
                        r.graph # doc.objs, r.key)
  /\ UNCHANGED <<orig, subtle, creds>>

\* the descriptor the trailer references, when it is a dictionary
HasDescriptor(pdf) == Lookup(pdf.objs, pdf.trailer.Encrypt).type = "dict"

Descriptor(pdf) == Lookup(pdf.objs, pdf.trailer.Encrypt)

SetDescriptorEntry(pdf, key, value) ==
  [pdf EXCEPT !.objs[pdf.trailer.Encrypt.r] = DictSet(Descriptor(pdf), key, value)]

\* the one-byte string c with bit `bit` inverted
FlipByte(c, bit) ==
  IF c[1].op = "lit" THEN Lit(<<XorByte(c[1].v[1], 2 ^ bit)>>)
  ELSE IF c[1].op = "flip" /\ c[1].bit = bit THEN c[1].of
  ELSE <<[op |-> "flip", of |-> c, bit |-> bit, lo |-> 1, hi |-> 1]>>

\* byte i (from 0) of bs with bit `bit` inverted
FlipBit(bs, i, bit) ==
  Cat(Cat(Take(bs, i), FlipByte(Slice(bs, i, i + 1), bit)), Drop(bs, i + 1))

\* the encrypted document as encryptPDF returned it for the original
FreshlyEncrypted == Len(hist) = 1 /\ hist[1].op = "encrypt"

\* somebody changes one bit of U in the descriptor of the encrypted document
TamperU(i, bit) ==
  /\ FreshlyEncrypted
  /\ HasDescriptor(doc)
  /\ getEncryptBytes(Descriptor(doc), "/U").found
  /\ i < BLen(getEncryptBytes(Descriptor(doc), "/U").bytes)
  /\ doc' = SetDescriptorEntry(doc, "/U",
              PDFHexStringOf(bytesToHex(
                FlipBit(getEncryptBytes(Descriptor(doc), "/U").bytes, i, bit))))
  /\ hist' = Append(hist, Op("tamperU", <<i, bit>>))
  /\ last' = Call("tamperU", <<>>, Len(hist), "", FALSE, FALSE, NoKey)
  /\ UNCHANGED <<orig, subtle, creds>>

\* the document comes from a writer that announces another revision or version
ForeignScheme(r, v) ==
  /\ FreshlyEncrypted
  /\ HasDescriptor(doc)
  /\ doc' = SetDescriptorEntry(SetDescriptorEntry(doc, "/R", PDFNumberOf(r)),
                               "/V", PDFNumberOf(v))
  /\ hist' = Append(hist, Op("foreign", <<r, v>>))
  /\ last' = Call("foreign", <<>>, Len(hist), "", FALSE, FALSE, NoKey)
  /\ UNCHANGED <<orig, subtle, creds>>

\* the encrypted document holds an object that was not encrypted in place of
\* object i
PlantObject(i, obj) ==
  /\ FreshlyEncrypted
  /\ i \in 1..Len(orig.objs)
  /\ doc' = [doc EXCEPT !.objs[i] = obj]
  /\ hist' = Append(hist, Op("plant", [i |-> i, obj |-> obj]))
  /\ last' = Call("plant", <<>>, Len(hist), "", FALSE, FALSE, NoKey)
  /\ UNCHANGED <<orig, subtle, creds>>

\* dict without the entries keyed key
DictRemove(dict, key) ==
  [dict EXCEPT !.e = SelectSeq(dict.e, LAMBDA en : en.key # key)]

\* bytes with the last byte cut off ("cut"), with one more byte ("grow"), or
\* with bit 0 of the last byte inverted ("flip")
Damaged(bytes, how) ==
  IF how = "cut" THEN Take(bytes, BLen(bytes) - 1)
  ELSE IF how = "grow" THEN Cat(bytes, Lit(<<0>>))
  ELSE FlipBit(bytes, BLen(bytes) - 1, 0)

\* the descriptor of the encrypted document arrives with the entry keyed key
\* missing ("remove") or with its bytes damaged
DamageEntry(key, how) ==
  /\ FreshlyEncrypted
  /\ HasDescriptor(doc)
  /\ getEncryptBytes(Descriptor(doc), key).found
  /\ doc' = IF how = "remove"
              THEN [doc EXCEPT !.objs[doc.trailer.Encrypt.r] =
                                 DictRemove(Descriptor(doc), key)]
            ELSE SetDescriptorEntry(doc, key,
                   PDFHexStringOf(bytesToHex(
                     Damaged(getEncryptBytes(Descriptor(doc), key).bytes, how))))
  /\ hist' = Append(hist, Op("damage", <<key, how>>))
  /\ last' = Call("damage", <<>>, Len(hist), "", FALSE, FALSE, NoKey)
  /\ UNCHANGED <<orig, subtle, creds>>

\* the entries that are damaged and how: every entry loses its length or is
\* missing, and the wrapped keys and the key salt of O change in place
DamageChoices ==
  ({"/O", "/U", "/OE", "/UE"} \X {"cut", "grow", "remove"})
    \cup {<<"/UE", "flip">>, <<"/OE", "flip">>, <<"/O", "flip">>}

\* the byte of U that is changed: in the hash, the validation salt, the key salt
TamperPositions == {0, 32, 40}
ForeignSchemes == {<<4, 5>>, <<5, 4>>}

Next ==
  \/ \E in \in (IF creds = <<>> THEN EncryptInputs ELSE ReEncryptInputs) : Encrypt(in)
  \/ \E password \in Passwords, g \in PadOutcomes : Decrypt(password, g)
  \/ \E i \in TamperPositions : TamperU(i, 0)
  \/ \E rv \in ForeignSchemes : ForeignScheme(rv[1], rv[2])
  \/ \E p \in PlantChoices : PlantObject(p[1], p[2])
  \/ \E d \in DamageChoices : DamageEntry(d[1], d[2])

Spec == Init /\ [][Next]_vars

\* ------------------------------------------------------------------------
\* Properties
\* ------------------------------------------------------------------------
\* the bytes of every string and of every stream of a value, whatever the
\* kind of string object that holds them
RECURSIVE Plain(_)
Plain(value) ==
  IF IsString(value) THEN [type |-> "bytes", b |-> asBytes(value)]
  ELSE IF value.type = "dict"
    THEN [type |-> "dict",
          e |-> [i \in 1..Len(value.e) |-> Entry(value.e[i].key, Plain(value.e[i].val))]]
  ELSE IF value.type = "arr"
    THEN [type |-> "arr", a |-> [i \in 1..Len(value.a) |-> Plain(value.a[i])]]
  ELSE IF value.type = "stream"
    THEN [type |-> "stream", d |-> Plain(value.d), c |-> value.c]
  ELSE value

\* every object of D is in pdf with the same payload bytes
SamePayloads(pdf, D) ==
  /\ Len(pdf.objs) >= Len(D.objs)
  /\ \A i \in 1..Len(D.objs) : Plain(pdf.objs[i]) = Plain(D.objs[i])

\* the last call was decryptPDF, applied to encryptPDF(orig, ...) as returned
DecryptOfFirstEncryption ==
  /\ last.op = "decrypt"
  /\ last.at = 1
  /\ hist[1].op = "encrypt"

Succeeded == last.err = "" /\ SamePayloads(doc, orig)

\* the password of the owner role: the user password when the owner
\* password is absent or empty
OwnerRolePassword(in) ==
  OwnerOrUser(IF in.ownerPassword = Absent THEN in.userPassword ELSE in.ownerPassword,
              in.userPassword)

\* C1: decryptPDF(encryptPDF(D, u, o, {permissions: p}), u) succeeds and every
\* stream payload and every string of the result has the bytes it has in D.
C1_UserRoundTrip ==
  (DecryptOfFirstEncryption /\ last.pw = creds[1].in.userPassword) => Succeeded

C1_Witness ==
  /\ DecryptOfFirstEncryption
  /\ last.pw = creds[1].in.userPassword
  /\ creds[1].in.ownerPassword = PwB
  /\ orig = DocRich
  /\ Succeeded

\* C2 as stated: decryptPDF(encryptPDF(D, u, o, {permissions: p}), o) succeeds
\* and restores every payload, for every owner password o given, the empty
\* string included.
C2_OwnerRoundTripAnyOwner ==
  (/\ DecryptOfFirstEncryption
   /\ creds[1].in.ownerPassword # Absent
   /\ last.pw = creds[1].in.ownerPassword) => Succeeded

\* C2 amended: decryptPDF(encryptPDF(D, u, o, {permissions: p}), o) succeeds and
\* restores every payload, for every owner password o that is not the empty
\* string.
C2_OwnerRoundTrip ==
  (/\ DecryptOfFirstEncryption
   /\ creds[1].in.ownerPassword # Absent
   /\ creds[1].in.ownerPassword # <<>>
   /\ last.pw = creds[1].in.ownerPassword) => Succeeded

C2_Witness ==
  /\ DecryptOfFirstEncryption
  /\ creds[1].in.ownerPassword = PwB
  /\ creds[1].in.userPassword = PwA
  /\ last.pw = PwB
  /\ last.key.role = "owner"
  /\ Succeeded

WrongPasswordOutcome ==
  /\ last.err = ErrWrongPassword
  /\ ~last.modified
  /\ Len(hist) = 1
  /\ HasDescriptor(doc)

\* C3 as stated: for every w with w # u and w # o, decryptPDF(encryptPDF(D, u, o), w)
\* fails with 'Wrong password' and returns no document.
C3_WrongPasswordAnyOther ==
  (/\ DecryptOfFirstEncryption
   /\ last.pw # creds[1].in.userPassword
   /\ last.pw # creds[1].in.ownerPassword) => WrongPasswordOutcome

\* C3 amended: for every w whose prepared bytes (UTF-8, cut to 127 bytes) differ
\* from the prepared bytes of u and of the password of the owner role (o, or u
\* when o is absent or empty), decryptPDF(encryptPDF(D, u, o), w) fails with
\* 'Wrong password' and returns no document.
C3_WrongPassword ==
  (/\ DecryptOfFirstEncryption
   /\ preparePassword(last.pw) # preparePassword(creds[1].in.userPassword)
   /\ preparePassword(last.pw) # preparePassword(OwnerRolePassword(creds[1].in)))
  => WrongPasswordOutcome

C3_Witness ==
  /\ DecryptOfFirstEncryption
  /\ creds[1].in.userPassword = PwLongX
  /\ creds[1].in.ownerPassword = PwB
  /\ last.pw = PwA
  /\ WrongPasswordOutcome

\* the last call was decryptPDF, applied to the output of the sequence
\* encryptPDF; decryptPDF; encryptPDF that started from orig
DecryptOfReEncryption ==
  /\ last.op = "decrypt"
  /\ last.at = 3
  /\ hist[1].op = "encrypt"
  /\ hist[2].op = "decrypt"
  /\ hist[3].op = "encrypt"

\* C4: after encrypt(u, o); decrypt; encrypt(u2, o2), decrypt(u2) succeeds and
\* the payloads of the result are those of D.
C4_ReEncryption ==
  (DecryptOfReEncryption /\ last.pw = creds[2].in.userPassword) => Succeeded

C4_Witness ==
  /\ DecryptOfReEncryption
  /\ last.pw = creds[2].in.userPassword
  /\ creds[1].in.userPassword # creds[2].in.userPassword
  /\ Len(hist) = 4
  /\ Len(doc.objs) = Len(orig.objs) + 2
  /\ Succeeded

\* C5: when R or V of the descriptor is not 5, decryptPDF fails with the
\* unsupported-scheme error, for every password, without having called the
\* key recovery and without having changed an object of the graph.
C5_UnsupportedScheme ==
  (/\ last.op = "decrypt"
   /\ last.at = 2
   /\ hist[2].op = "foreign"
   /\ hist[2].arg # <<5, 5>>)
  => (/\ last.err = ErrUnsupported
      /\ ~last.derived
      /\ ~last.modified
      /\ Len(hist) = 2)

C5_Witness ==
  /\ last.op = "decrypt"
  /\ last.at = 2
  /\ hist[2].op = "foreign"
  /\ hist[2].arg = <<5, 4>>
  /\ last.pw = creds[1].in.userPassword
  /\ last.err = ErrUnsupported

KeyLengthsOk(keys) ==
  /\ BLen(keys.O) = 48
  /\ BLen(keys.U) = 48
  /\ BLen(keys.OE) = 32
  /\ BLen(keys.UE) = 32
  /\ BLen(keys.Perms) = 16
  /\ BLen(keys.fileEncryptionKey) = 32

DescriptorLengthsOk(pdf) ==
  /\ BLen(getEncryptBytes(Descriptor(pdf), "/O").bytes) = 48
  /\ BLen(getEncryptBytes(Descriptor(pdf), "/U").bytes) = 48
  /\ BLen(getEncryptBytes(Descriptor(pdf), "/OE").bytes) = 32
  /\ BLen(getEncryptBytes(Descriptor(pdf), "/UE").bytes) = 32
  /\ BLen(getEncryptBytes(Descriptor(pdf), "/Perms").bytes) = 16

\* C6: every successful computeRev5Keys / encryptPDF call yields O and U of 48
\* bytes, OE and UE of 32 bytes, Perms of 16 bytes and a file key of 32 bytes.
C6_Lengths ==
  /\ \A k \in 1..Len(creds) : KeyLengthsOk(creds[k].keys)
  /\ (last.op = "encrypt" /\ last.err = "") => DescriptorLengthsOk(doc)

C6_Witness ==
  /\ last.op = "encrypt"
  /\ last.err = ""
  /\ Len(creds) = 2
  /\ creds[1].in.userPassword = PwLongX
  /\ DescriptorLengthsOk(doc)

\* C7: with one bit of U changed after encryption, key recovery with the owner
\* password returns no key.
C7_OwnerUserBinding ==
  (/\ last.op = "decrypt"
   /\ last.at = 2
   /\ hist[1].op = "encrypt"
   /\ hist[2].op = "tamperU"
   /\ last.pw = OwnerRolePassword(creds[1].in))
  => ~last.key.found

\* the stream of DocMin, whose plaintext is 16 bytes
LeafOf(pdf) == pdf.objs[2].c

\* C8 as stated: a payload of exactly 16 bytes encrypts to exactly 32 bytes and
\* decrypts back to the 16 bytes.
C8_Leaf16Gives32 ==
  /\ (orig = DocMin /\ last.op = "encrypt" /\ last.at = 0 /\ last.err = "")
       => BLen(LeafOf(doc)) = 32
  /\ (orig = DocMin /\ last.op = "decrypt" /\ last.at = 1 /\ hist[1].op = "encrypt"
        /\ last.err = "") => LeafOf(doc) = Leaf16

\* C8 amended: a payload of exactly 16 bytes encrypts to exactly 48 bytes (the
\* IV, the data block and a full padding block) and decrypts back to the 16
\* bytes.
C8_Leaf16Gives48 ==
  /\ (orig = DocMin /\ last.op = "encrypt" /\ last.at = 0 /\ last.err = "")
       => /\ BLen(LeafOf(doc)) = 48
          /\ BLen(LeafOf(orig)) = 16
  /\ (orig = DocMin /\ last.op = "decrypt" /\ last.at = 1 /\ hist[1].op = "encrypt"
        /\ last.err = "") => LeafOf(doc) = Leaf16

C8_Witness ==
  /\ orig = DocMin
  /\ last.op = "encrypt"
  /\ last.at = 0
  /\ BLen(LeafOf(orig)) = 16
  /\ BLen(LeafOf(doc)) = 48

\* C9: after a successful encryptPDF the trailer references the descriptor
\* that call created (R = 5, V = 5); after a successful decryptPDF the trailer
\* references no descriptor, and decryptPDF on that output fails with 'PDF is
\* not encrypted' for every password.
C9_DescriptorLifecycle ==
  /\ (last.op = "encrypt" /\ last.err = "")
       => /\ doc.trailer.Encrypt = PDFRefOf(Len(doc.objs))
          /\ HasDescriptor(doc)
          /\ DictGet(Descriptor(doc), "/R") = PDFNumberOf(5)
          /\ DictGet(Descriptor(doc), "/V") = PDFNumberOf(5)
          /\ getEncryptBytes(Descriptor(doc), "/U").bytes = creds[Len(creds)].keys.U
          /\ getEncryptBytes(Descriptor(doc), "/O").bytes = creds[Len(creds)].keys.O
  /\ (hist # <<>> /\ hist[Len(hist)].op = "decrypt")
       => doc.trailer.Encrypt = Undefined
  /\ (last.op = "decrypt" /\ last.at >= 1 /\ hist[last.at].op = "decrypt")
       => (last.err = ErrNotEncrypted /\ Len(hist) = last.at)

C9_Witness ==
  /\ last.op = "decrypt"
  /\ last.at = 2
  /\ hist[1].op = "encrypt"
  /\ hist[2].op = "decrypt"
  /\ last.pw = creds[1].in.userPassword
  /\ last.err = ErrNotEncrypted

OwnerDefaulted(in) == in.ownerPassword = Absent \/ in.ownerPassword = <<>>

\* C10: when the owner password is absent or empty, O and OE validate and
\* unwrap under the user password, as U and UE do, and the encrypted document
\* decrypts with the user password.
C10_OwnerDefault ==
  /\ \A k \in 1..Len(creds) :
       OwnerDefaulted(creds[k].in) =>
         LET pwd == preparePassword(creds[k].in.userPassword)
             keys == creds[k].keys
         IN /\ OwnerAttempt(pwd, keys.U, keys.O, keys.OE, subtle, 0)
                 = [found |-> TRUE, key |-> keys.fileEncryptionKey, role |-> "owner"]
            /\ UserAttempt(pwd, keys.U, keys.UE, subtle, 0)
                 = [found |-> TRUE, key |-> keys.fileEncryptionKey, role |-> "user"]
  /\ (/\ DecryptOfFirstEncryption
      /\ OwnerDefaulted(creds[1].in)
      /\ last.pw = creds[1].in.userPassword)
     => (Succeeded /\ last.key.key = creds[1].keys.fileEncryptionKey)

C10_Witness ==
  /\ DecryptOfFirstEncryption
  /\ creds[1].in.ownerPassword = <<>>
  /\ creds[1].in.userPassword = PwA
  /\ last.pw = PwA
  /\ Succeeded

\* the last call was decryptPDF, applied to the output of an encryptPDF call,
\* and it reached the key recovery
RecoveryOnLatestKeys ==
  /\ last.op = "decrypt"
  /\ last.at >= 1
  /\ hist[last.at].op = "encrypt"
  /\ last.derived

\* the file key of the latest encryption, returned for the role
LatestKey(role) ==
  [found |-> TRUE, key |-> creds[Len(creds)].keys.fileEncryptionKey, role |-> role]

\* C11: on the U, O, OE, UE that computeRev5Keys produced for u, o and the
\* file key k, deriveFileKeyFromPassword returns k in the user role for a
\* password that prepares to u, k in the owner role for one that prepares to o
\* and not to u, and null for every other password.
C11_KeyRecovery ==
  RecoveryOnLatestKeys =>
    last.key =
      IF preparePassword(last.pw) = preparePassword(creds[Len(creds)].in.userPassword)
        THEN LatestKey("user")
      ELSE IF preparePassword(last.pw)
                = preparePassword(OwnerRolePassword(creds[Len(creds)].in))
        THEN LatestKey("owner")
      ELSE NoKey

C11_Witness ==
  /\ RecoveryOnLatestKeys
  /\ Len(creds) = 2
  /\ creds[2].in.userPassword = PwB
  /\ creds[2].in.ownerPassword = PwA
  /\ last.pw = PwA
  /\ subtle
  /\ last.key = LatestKey("owner")

\* the string is an IV followed by a padded ciphertext under fileKey
InEncryptedForm(value, fileKey) ==
  /\ BLen(asBytes(value)) >= IV_LEN + AES_BLOCK_SIZE
  /\ BLen(asBytes(value)) % AES_BLOCK_SIZE = 0
  /\ decryptObject(asBytes(value), fileKey, 0).ok

\* every string contained in value, under entries that are not reserved and
\* as elements of arrays, is in encrypted form
RECURSIVE StringsEncrypted(_, _)
StringsEncrypted(value, fileKey) ==
  IF IsString(value) THEN InEncryptedForm(value, fileKey)
  ELSE IF value.type = "dict"
    THEN \A i \in 1..Len(value.e) :
           \/ value.e[i].key \in ReservedKeys
           \/ StringsEncrypted(value.e[i].val, fileKey)
  ELSE IF value.type = "arr"
    THEN \A i \in 1..Len(value.a) : StringsEncrypted(value.a[i], fileKey)
  ELSE TRUE

\* the last call was encryptPDF on the original document, and it returned
FirstEncryptionDone == last.op = "encrypt" /\ last.at = 0 /\ last.err = ""

\* C12: after encryptPDF, every string contained in a dictionary or array that
\* is an indirect object the walk does not skip is in encrypted form, the
\* strings that are direct elements of arrays included.
C12_GraphCoverage ==
  FirstEncryptionDone =>
    \A i \in 1..Len(orig.objs) :
      (SkipTest(orig.objs[i]) = "walk" /\ orig.objs[i].type \in {"dict", "arr"})
        => StringsEncrypted(doc.objs[i], creds[1].keys.fileEncryptionKey)

\* value with every leaf blanked except the values of the entries keyed
\* Length, Filter or DecodeParms, which are kept whole
RECURSIVE ReservedOf(_)
ReservedOf(value) ==
  IF value.type = "dict"
    THEN [type |-> "dict",
          e |-> [i \in 1..Len(value.e) |->
                   IF value.e[i].key \in {"/Length", "/Filter", "/DecodeParms"}
                     THEN value.e[i]
                   ELSE Entry(value.e[i].key, ReservedOf(value.e[i].val))]]
  ELSE IF value.type = "arr"
    THEN [type |-> "arr", a |-> [i \in 1..Len(value.a) |-> ReservedOf(value.a[i])]]
  ELSE IF value.type = "stream"
    THEN [type |-> "stream", d |-> value.d]
  ELSE [type |-> "leaf"]

\* a dictionary whose Filter is /Standard
IsStandardDict(obj) ==
  obj.type = "dict" /\ DictGet(obj, "/Filter") = PDFNameOf("/Standard")

\* object i is the same in pdf and in before if it is a /Standard dictionary,
\* and has the same reserved entries in both
FrameKept(before, pdf, i) ==
  /\ IsStandardDict(before.objs[i]) => pdf.objs[i] = before.objs[i]
  /\ ReservedOf(pdf.objs[i]) = ReservedOf(before.objs[i])

\* C13: a step of encryptPDF or decryptPDF leaves every indirect object that is
\* a dictionary with Filter /Standard as it was, and leaves the value of every
\* entry keyed Length, Filter or DecodeParms as it was, at any depth.
C13_WalkerFrame ==
  [][last'.op \in {"encrypt", "decrypt"} =>
       /\ Len(doc'.objs) >= Len(doc.objs)
       /\ \A i \in 1..Len(doc.objs) : FrameKept(doc, doc', i)]_vars

C13_Witness ==
  /\ orig = DocRich
  /\ last.op = "decrypt"
  /\ last.at = 1
  /\ hist[1].op = "encrypt"
  /\ last.err = ""
  /\ last.modified
  /\ IsStandardDict(orig.objs[6])
  /\ doc.objs[6] = orig.objs[6]
  /\ DictGet(doc.objs[1], "/Length") = PDFStringOf(Lit(<<108, 101, 110>>))
  /\ DictGet(doc.objs[1], "/DecodeParms") = DictGet(orig.objs[1], "/DecodeParms")
  /\ DictGet(doc.objs[1], "/Title") # DictGet(orig.objs[1], "/Title")

\* the last call was decryptPDF, applied to the first encryption with an
\* unencrypted object planted in it, and the password gave a key
DecryptOfPlanted ==
  /\ last.op = "decrypt"
  /\ last.at = 2
  /\ hist[1].op = "encrypt"
  /\ hist[2].op = "plant"
  /\ last.key.found

\* decryptPDF threw: no document was returned, the encrypted one is at hand
NoDocumentReturned ==
  /\ last.err # ""
  /\ Len(hist) = last.at
  /\ HasDescriptor(doc)

\* the string now is the string before, or the hex string of a decryption of
\* it that succeeded
KeptOrDecrypted(now, before, fileKey) ==
  \/ now = before
  \/ \E g \in PadOutcomes :
       /\ decryptObject(asBytes(before), fileKey, g).ok
       /\ now = PDFHexStringOf(bytesToHex(decryptObject(asBytes(before), fileKey, g).v))

\* every string entry of the dictionary before is dealt with in now as the
\* policy says: untouched when shorter than 32 bytes, else kept or decrypted
StringPolicyKept(now, before, fileKey) ==
  /\ Len(now.e) = Len(before.e)
  /\ \A n \in 1..Len(before.e) :
       IF BLen(asBytes(before.e[n].val)) < 32
         THEN now.e[n] = before.e[n]
       ELSE /\ now.e[n].key = before.e[n].key
            /\ KeptOrDecrypted(now.e[n].val, before.e[n].val, fileKey)

\* the objects of the original other than object i have their payloads back
OthersRestored(i) ==
  \A j \in 1..Len(orig.objs) : j = i \/ Plain(doc.objs[j]) = Plain(orig.objs[j])

\* C14: decryptPDF leaves a string shorter than 32 bytes untouched, keeps a
\* string of 32 bytes or more that does not decrypt and goes on with the walk;
\* a stream shorter than 32 bytes or one that does not decrypt makes the call
\* throw, and no document is returned.
C14_DecryptErrorPolicy ==
  /\ (DecryptOfPlanted /\ hist[2].arg.obj.type = "dict")
       => /\ last.err = ""
          /\ StringPolicyKept(doc.objs[hist[2].arg.i], hist[2].arg.obj, last.key.key)
          /\ OthersRestored(hist[2].arg.i)
  /\ (DecryptOfPlanted /\ hist[2].arg.obj.type = "stream"
        /\ BLen(hist[2].arg.obj.c) < 32)
       => (last.err = "Encrypted object too short" /\ NoDocumentReturned)
  /\ (DecryptOfPlanted /\ hist[2].arg.obj.type = "stream"
        /\ BLen(hist[2].arg.obj.c) >= 32)
       => \/ NoDocumentReturned
          \/ \E g \in PadOutcomes :
               /\ decryptObject(hist[2].arg.obj.c, last.key.key, g).ok
               /\ doc.objs[hist[2].arg.i].c
                    = decryptObject(hist[2].arg.obj.c, last.key.key, g).v

C14_Witness ==
  /\ DecryptOfPlanted
  /\ orig = DocMin
  /\ hist[2].arg.obj = PlainStrings
  /\ last.err = ""
  /\ doc.objs[1] = PlainStrings
  /\ LeafOf(doc) = Leaf16

\* the entry keyed key of the descriptor is a string of n bytes
FieldHasLength(pdf, key, n) ==
  /\ getEncryptBytes(Descriptor(pdf), key).found
  /\ BLen(getEncryptBytes(Descriptor(pdf), key).bytes) = n

FieldsHaveLengths(pdf) ==
  /\ FieldHasLength(pdf, "/O", 48)
  /\ FieldHasLength(pdf, "/U", 48)
  /\ FieldHasLength(pdf, "/OE", 32)
  /\ FieldHasLength(pdf, "/UE", 32)

\* the descriptor announces R = 5 and V = 5
SchemeIsRev5(pdf) ==
  /\ DictGet(Descriptor(pdf), "/R") = PDFNumberOf(5)
  /\ DictGet(Descriptor(pdf), "/V") = PDFNumberOf(5)

\* the password matches neither the validation hash of U nor that of O
MatchesNeitherHash(pdf, password) ==
  /\ sha256(concat(<<preparePassword(password),
                     Slice(getEncryptBytes(Descriptor(pdf), "/U").bytes, 32, 40)>>))
       # Slice(getEncryptBytes(Descriptor(pdf), "/U").bytes, 0, 32)
  /\ sha256(concat(<<preparePassword(password),
                     Slice(getEncryptBytes(Descriptor(pdf), "/O").bytes, 32, 40),
                     getEncryptBytes(Descriptor(pdf), "/U").bytes>>))
       # Slice(getEncryptBytes(Descriptor(pdf), "/O").bytes, 0, 32)

\* the last call was decryptPDF, applied to the first encryption with an
\* entry of its descriptor damaged
DecryptOfDamaged ==
  /\ last.op = "decrypt"
  /\ last.at = 2
  /\ hist[1].op = "encrypt"
  /\ hist[2].op = "damage"

\* C15: when O, U, OE or UE of a Rev 5 descriptor is missing or has another
\* length than 48, 48, 32, 32, decryptPDF throws the invalid-dictionary error,
\* which is not 'Wrong password', for every password and without having called
\* the key recovery; and 'Wrong password' is thrown only when the four entries
\* have their lengths and the password matches neither validation hash.
C15_CorruptionNotWrongPassword ==
  /\ (DecryptOfDamaged /\ hist[2].arg[2] \in {"cut", "grow", "remove"})
       => NoDocumentReturned
  /\ (last.op = "decrypt" /\ HasDescriptor(doc) /\ SchemeIsRev5(doc)
        /\ ~FieldsHaveLengths(doc))
       => /\ last.err = ErrInvalidLengths
          /\ last.err # ErrWrongPassword
          /\ ~last.derived
  /\ (last.op = "decrypt" /\ last.err = ErrWrongPassword)
       => /\ HasDescriptor(doc)
          /\ FieldsHaveLengths(doc)
          /\ MatchesNeitherHash(doc, last.pw)

C15_Witness ==
  /\ DecryptOfDamaged
  /\ hist[2].arg = <<"/UE", "cut">>
  /\ last.pw = creds[1].in.userPassword
  /\ ~FieldHasLength(doc, "/UE", 32)
  /\ last.err = ErrInvalidLengths
  /\ ~last.derived

\* C16: when UE, OE or the key salt of U or O was changed after encryption
\* and the key recovery returns a key, it is the file key of the encryption.
C16_WrappedKeyCorruptionDetected ==
  (/\ last.op = "decrypt"
   /\ last.at = 2
   /\ hist[1].op = "encrypt"
   /\ \/ hist[2].op = "damage" /\ hist[2].arg[2] = "flip"
      \/ hist[2].op = "tamperU" /\ hist[2].arg[1] = 40
   /\ last.key.found)
  => last.key.key = creds[1].keys.fileEncryptionKey

\* 32-byte keys and 16-byte blocks of the k-th encryption: the file key and
\* the key that wraps it for the user; the sealed permissions, the two blocks
\* of UE, a block of text, a block of zeros and a full padding block
KeysOf(k) ==
  {creds[k].keys.fileEncryptionKey,
   sha256(concat(<<preparePassword(creds[k].in.userPassword),
                   Slice(creds[k].keys.U, 40, 48)>>))}

BlocksOf(k) ==
  {creds[k].keys.Perms, Slice(creds[k].keys.UE, 0, 16), Slice(creds[k].keys.UE, 16, 32),
   Leaf16, Zero16, Fill(16, 16)}

\* padded CBC decryption, zero IV, of C followed by E_K(FULL_PAD xor C)
TwoBlockDecrypt(K, C, g) ==
  PlatformCbcDecrypt(K, Zero16,
                     Cat(C, Slice(PlatformCbcEncrypt(K, Zero16, xor16(Fill(16, 16), C)),
                                  0, 16)),
                     TRUE, g)

\* C17: for every key K and block C, padded CBC decryption with zero IV of C
\* followed by E_K(FULL_PAD xor C) is the 16 bytes D_K(C); aes256EcbDecrypt is
\* D_K(C) on both platform branches, and it undoes aes256EcbEncrypt.  (K and C
\* are the keys and blocks of the encryption just made.)
C17_SingleBlockDecrypt ==
  (last.op = "encrypt" /\ last.err = "") =>
    \A K \in KeysOf(Len(creds)) : \A C \in BlocksOf(Len(creds)) : \A g \in PadOutcomes :
      /\ TwoBlockDecrypt(K, C, g) = Ok(AesBlockDecrypt(K, C))
      /\ BLen(TwoBlockDecrypt(K, C, g).v) = 16
      /\ aes256EcbDecrypt(K, C, TRUE, g) = Ok(AesBlockDecrypt(K, C))
      /\ aes256EcbDecrypt(K, C, FALSE, g) = aes256EcbDecrypt(K, C, TRUE, g)
      /\ aes256EcbEncrypt(K, C).ok
      /\ \A s \in BOOLEAN : aes256EcbDecrypt(K, aes256EcbEncrypt(K, C).v, s, g) = Ok(C)

C17_Witness ==
  /\ last.op = "encrypt"
  /\ last.err = ""
  /\ Len(creds) = 2
  /\ creds[2].keys.Perms \in BlocksOf(2)
  /\ aes256EcbDecrypt(creds[2].keys.fileEncryptionKey, creds[2].keys.Perms, TRUE, 0)
       = Ok(PermsBlock(1028, FALSE,
                       getRandomBytes(creds[2].in.seed, creds[2].keys.draws - 1, 4)))
  /\ aes256EcbDecrypt(creds[2].keys.fileEncryptionKey, Leaf16, TRUE, 0)
       = Ok(AesBlockDecrypt(creds[2].keys.fileEncryptionKey, Leaf16))

\* the last call was decryptPDF, it reached the key recovery and threw, so
\* that the descriptor it read is the one at hand
RecoveryThrew ==
  /\ last.op = "decrypt"
  /\ last.derived
  /\ last.err # ""
  /\ HasDescriptor(doc)

\* the positions inspected by the comparison of the user attempt, for password
\* pw on the bytes U
UserComparisonInspected(pw, U) ==
  compareBytesInspected(sha256(concat(<<preparePassword(pw), Slice(U, 32, 40)>>)),
                        Slice(U, 0, 32))

\* C18: the comparison of the user attempt inspects all 32 positions of the
\* two hashes, whether they are equal or not and wherever they differ.
C18_FullLengthComparison ==
  /\ (DecryptOfFirstEncryption /\ last.derived)
       => UserComparisonInspected(last.pw, creds[1].keys.U) = {32}
  /\ RecoveryThrew
       => UserComparisonInspected(last.pw, getEncryptBytes(Descriptor(doc), "/U").bytes)
            = {32}

\* a metadata payload: a stream whose dictionary has Type /Metadata
IsMetadataStream(obj) ==
  obj.type = "stream" /\ DictGet(obj.d, "/Type") = PDFNameOf("/Metadata")

\* the flag as the descriptor records it
RecordedEncryptMetadata(pdf) == DictGet(Descriptor(pdf), "/EncryptMetadata") = PDFBoolOf(TRUE)

\* byte 8 of the permissions block sealed in Perms
SealedFlagByte(keys) ==
  Slice(aes256EcbDecrypt(keys.fileEncryptionKey, keys.Perms, FALSE, 0).v, 8, 9)

\* C19: after encryptPDF the EncryptMetadata entry and byte 8 of the
\* permissions block are true ('T') exactly when the metadata payloads of the
\* document were encrypted by the call; with encryptMetadata = false they are
\* in the clear.
C19_MetadataFlag ==
  FirstEncryptionDone =>
    /\ SealedFlagByte(creds[1].keys)
         = Lit(<<IF RecordedEncryptMetadata(doc) THEN 84 ELSE 70>>)
    /\ RecordedEncryptMetadata(doc) = (creds[1].in.options.encryptMetadata # "false")
    /\ \A i \in 1..Len(orig.objs) :
         IsMetadataStream(orig.objs[i]) =>
           /\ RecordedEncryptMetadata(doc) <=> (doc.objs[i].c # orig.objs[i].c)
           /\ creds[1].in.options.encryptMetadata = "false"
                => doc.objs[i].c = orig.objs[i].c

\* byte k (0..3) of the 32-bit two's-complement encoding of p, least
\* significant byte first: for a negative p the complement of the byte of -p - 1
TwosComplementByte(p, k) ==
  IF p >= 0 THEN (p \div (256 ^ k)) % 256
  ELSE 255 - ((((-p) - 1) \div (256 ^ k)) % 256)

\* bytes 0..11 of the permissions block for permissions p and the flag
LayoutHead(p, flag) ==
  Lit(<<TwosComplementByte(p, 0), TwosComplementByte(p, 1),
        TwosComplementByte(p, 2), TwosComplementByte(p, 3),
        255, 255, 255, 255, IF flag THEN 84 ELSE 70, 97, 100, 98>>)

\* the permissions an encryptPDF call was given, -4 when none
PermissionsOf(in) ==
  IF in.options.permissions = <<>> THEN -4 ELSE in.options.permissions[1]

\* block: the 16 bytes sealed in Perms
PermsLayoutOk(pdf, cred, block) ==
  /\ BLen(block) = 16
  /\ Slice(block, 0, 12)
       = LayoutHead(PermissionsOf(cred.in), cred.in.options.encryptMetadata # "false")
  /\ Slice(block, 12, 16) = getRandomBytes(cred.in.seed, cred.keys.draws - 1, 4)
  /\ cred.keys.Perms = AesBlockEncrypt(cred.keys.fileEncryptionKey, block)
  /\ BLen(cred.keys.Perms) = 16
  /\ getEncryptBytes(Descriptor(pdf), "/Perms").bytes = cred.keys.Perms
  /\ DictGet(Descriptor(pdf), "/P") = PDFNumberOf(PermissionsOf(cred.in))

\* C20: after encryptPDF with permissions p, Perms is the one-block encryption
\* under the file key of the 16 bytes made of p in little-endian two's
\* complement, four bytes 0xFF, 'T' or 'F' for the metadata flag, 'a', 'd',
\* 'b' and four random bytes; and the P entry of the descriptor is p.
C20_PermsLayout ==
  (last.op = "encrypt" /\ last.err = "") =>
    PermsLayoutOk(doc, creds[Len(creds)],
                  AesBlockDecrypt(creds[Len(creds)].keys.fileEncryptionKey,
                                  creds[Len(creds)].keys.Perms))

C20_Witness ==
  /\ last.op = "encrypt"
  /\ last.err = ""
  /\ Len(creds) = 1
  /\ PermissionsOf(creds[1].in) = -3904
  /\ Slice(AesBlockDecrypt(creds[1].keys.fileEncryptionKey, creds[1].keys.Perms), 0, 12)
       = Lit(<<192, 240, 255, 255, 255, 255, 255, 255, 84, 97, 100, 98>>)
  /\ DictGet(Descriptor(doc), "/P") = PDFNumberOf(-3904)

\* after is what encryptObject made of the n bytes before: 16 + 16 * (n \div 16 + 1)
\* bytes, so at least 32 and a multiple of 16, which decryptObject accepts and
\* turns back into before
PayloadLengthOk(before, after, fileKey) ==
  /\ BLen(after) = 16 + 16 * ((BLen(before) \div 16) + 1)
  /\ BLen(after) >= IV_LEN + 16
  /\ BLen(after) % 16 = 0
  /\ decryptObject(after, fileKey, 0) = Ok(before)

\* the strings that the walk hands to encryptObject (the values of the entries
\* of dictionaries that are not reserved) have the length of an encrypted
\* payload in after
RECURSIVE StringLengthsOk(_, _, _)
StringLengthsOk(before, after, fileKey) ==
  IF before.type = "dict"
    THEN \A n \in 1..Len(before.e) :
           \/ before.e[n].key \in {"/Length", "/Filter", "/DecodeParms"}
           \/ IF IsString(before.e[n].val)
                THEN /\ IsString(after.e[n].val)
                     /\ PayloadLengthOk(asBytes(before.e[n].val),
                                        asBytes(after.e[n].val), fileKey)
              ELSE StringLengthsOk(before.e[n].val, after.e[n].val, fileKey)
  ELSE IF before.type = "arr"
    THEN \A n \in 1..Len(before.a) :
           StringLengthsOk(before.a[n], after.a[n], fileKey)
  ELSE TRUE

\* object i of the document before an encryptPDF call and after it
ObjectLengthsOk(before, after, fileKey) ==
  IF IsStandardDict(before) THEN TRUE
  ELSE IF before.type = "stream" THEN PayloadLengthOk(before.c, after.c, fileKey)
  ELSE StringLengthsOk(before, after, fileKey)

\* C21: every payload that a successful encryptPDF step handed to encryptObject
\* with n bytes has 16 + 16 * (n \div 16 + 1) bytes afterwards, n = 0 included:
\* at least 32 bytes and a multiple of 16, so that decryptObject does not find
\* it too short, the string walk does not skip it, and it decrypts to the n bytes.
C21_EncryptedLength ==
  [][(last'.op = "encrypt" /\ last'.err = "") =>
       \A i \in 1..Len(doc.objs) :
         ObjectLengthsOk(doc.objs[i], doc'.objs[i],
                         creds'[Len(creds')].keys.fileEncryptionKey)]_vars

C21_Witness ==
  /\ FirstEncryptionDone
  /\ orig = DocRich
  /\ orig.objs[5].c = <<>>
  /\ BLen(doc.objs[5].c) = 32
  /\ BLen(orig.objs[2].c) = 5
  /\ BLen(doc.objs[2].c) = 32
  /\ BLen(asBytes(orig.objs[3].a[2].e[1].val)) = 17
  /\ BLen(asBytes(doc.objs[3].a[2].e[1].val)) = 48
  /\ decryptObject(doc.objs[5].c, creds[1].keys.fileEncryptionKey, 0) = Ok(<<>>)

\* the document was encrypted, and the output encrypted again
DoubleEncrypted ==
  /\ Len(hist) >= 2
  /\ hist[1].op = "encrypt"
  /\ hist[2].op = "encrypt"

\* encrypt; encrypt; decrypt: the second layer was taken off
OuterLayerRemoved ==
  /\ Len(hist) = 3
  /\ DoubleEncrypted
  /\ hist[3].op = "decrypt"

\* every stream of the original is in pdf as its ciphertext under the key of
\* the first encryption
FirstLayerCiphertext(pdf) ==
  \A i \in 1..Len(orig.objs) :
    orig.objs[i].type = "stream" =>
      /\ pdf.objs[i].c # orig.objs[i].c
      /\ decryptObject(pdf.objs[i].c, creds[1].keys.fileEncryptionKey, 0)
           = Ok(orig.objs[i].c)

\* every stream of the original is in pdf encrypted under the first key and
\* the result encrypted under the second
TwoLayers(pdf) ==
  \A i \in 1..Len(orig.objs) :
    orig.objs[i].type = "stream" =>
      /\ decryptObject(pdf.objs[i].c, creds[2].keys.fileEncryptionKey, 0).ok
      /\ decryptObject(decryptObject(pdf.objs[i].c, creds[2].keys.fileEncryptionKey, 0).v,
                       creds[1].keys.fileEncryptionKey, 0) = Ok(orig.objs[i].c)

\* the descriptor that the first encryption added, as it was written
FirstDescriptor ==
  EncryptDict(creds[1].keys, PermissionsOf(creds[1].in),
              creds[1].in.options.encryptMetadata # "false")

\* C22: encryptPDF on an encrypted document succeeds: it encrypts the payloads
\* again under the new key, leaves the old descriptor object as it is and
\* makes the trailer reference the new one.  After encrypt(u1); encrypt(u2);
\* decrypt(u2) the trailer references no descriptor and the payloads are the
\* ciphertext of the first encryption; every decryptPDF call from there on
\* fails with 'PDF is not encrypted' and leaves the document as it is.
C22_DoubleEncryption ==
  /\ (last.op = "encrypt" /\ last.at = 1 /\ hist[1].op = "encrypt")
       => /\ last.err = ""
          /\ DoubleEncrypted
          /\ Len(doc.objs) = Len(orig.objs) + 2
          /\ doc.objs[Len(orig.objs) + 1] = FirstDescriptor
          /\ doc.trailer.Encrypt = PDFRefOf(Len(doc.objs))
          /\ getEncryptBytes(Descriptor(doc), "/U").bytes = creds[2].keys.U
          /\ TwoLayers(doc)
  /\ (DoubleEncrypted /\ last.op = "decrypt" /\ last.at = 2
        /\ last.pw = creds[2].in.userPassword)
       => (last.err = "" /\ OuterLayerRemoved)
  /\ OuterLayerRemoved
       => /\ doc.trailer.Encrypt = Undefined
          /\ doc.objs[Len(orig.objs) + 1] = FirstDescriptor
          /\ FirstLayerCiphertext(doc)
          /\ ~SamePayloads(doc, orig)
  /\ (OuterLayerRemoved /\ last.op = "decrypt" /\ last.at = 3)
       => /\ last.err = ErrNotEncrypted
          /\ ~last.modified

C22_Witness ==
  /\ OuterLayerRemoved
  /\ last.op = "decrypt"
  /\ last.at = 3
  /\ last.pw = creds[1].in.userPassword
  /\ creds[1].in.userPassword # creds[2].in.userPassword
  /\ last.err = ErrNotEncrypted
  /\ FirstLayerCiphertext(doc)
  /\ orig = DocRich

=============================================================================
